---- MODULE Spec2Model ----
(***************************************************************************)
(* kivra-sync: the catalog fetchers (receipts, letters) over the document   *)
(* stores, the BankID authentication poll loop, fetch_documents and main,   *)
(* the listening providers, the GraphQL client and the base64 padding.      *)
(***************************************************************************)
EXTENDS Integers, Sequences, FiniteSets, TLC

(* ------------------------------ bounds -------------------------------- *)
\* longest remote catalog
MaxItems == 3
\* largest page the server hands out per list request
MaxPage == 2
\* fetcher invocations against the same store
MaxRuns == 2
\* cap on the list requests of one run (the loop itself has none)
MaxListReq == 5
\* failures (of a request, of a write, of a conversion) in one behaviour
MaxFaults == 2
\* poll answers with status pending in one authentication
MaxPolls == 4
\* longest remote catalog in a whole run of fetch_documents
MaxRunItems == 1
\* triggers sent to a listening provider
MaxTriggers == 2
\* connection failures of the ntfy stream
MaxDrops == 1
\* longest `errors` array of a GraphQL answer
MaxErrors == 2
\* most data characters of a base64 segment (besides the challenge's)
MaxChars == 6
\* calls made to a document store on its own
MaxCalls == 3
\* documents handed to a document store on its own
MaxKeys == 2
\* event streams opened on the web provider
MaxClients == 2
\* calls of the web provider's broadcast
MaxBroadcasts == 2

(* --------------------------- program values --------------------------- *)
\* a listed item whose key is null / empty (falsy in `if not letter_key`)
NoKey == 0

Min(a, b) == IF a <= b THEN a ELSE b
Max(a, b) == IF a >= b THEN a ELSE b

\* Python's list[:n] for an integer n (negative n counts from the end)
PySlice(s, n) ==
    IF n >= 0 THEN SubSeq(s, 1, Min(n, Len(s)))
              ELSE SubSeq(s, 1, Max(Len(s) + n, 0))

\* variant: 0 is passed on as a limit of zero items
HasMaxAlways(arg) == TRUE
\* kivra_sync.py: max_count = None if args.max_x == 0 else args.max_x
HasMax(arg) == arg # 0

\* the stored counter: an int, or None after a bare `return`
IntVal(n) == [isNone |-> FALSE, val |-> n]
NoneVal == [isNone |-> TRUE, val |-> 0]

\* `counter += 1` inside the try block: TypeError on None is caught and logged
Increment(c) == IF c.isNone THEN c ELSE IntVal(c.val + 1)

(* ----------------------------- the parts ------------------------------ *)
Part(ct, k) == [content_type |-> ct, haskey |-> k]
TextPart == Part("text/plain", TRUE)
HtmlPart == Part("text/html", TRUE)
PdfPart == Part("application/pdf", TRUE)
PdfNoKeyPart == Part("application/pdf", FALSE)
UnknownPart == Part("application/x-unknown", TRUE)

\* the letters of the account: what content_data['parts'] can look like
Shapes ==
    << <<TextPart, PdfPart, HtmlPart, UnknownPart>>,
       <<PdfPart>>,
       <<PdfNoKeyPart, HtmlPart>>,
       <<TextPart, PdfPart>> >>

(* ------------------------------- state -------------------------------- *)
VARIABLES
    kind,          \* "receipts" or "letters": which fetcher runs
    catalog,       \* the remote listing: a sequence of keys (NoKey = null key)
    serverTotal,   \* the `total` field the server reports
    pageSize,      \* items per page the server returns (take is an upper limit)
    srvMore,       \* "honest": existsMore = more remain; "always": always true
    max_arg,       \* args.max_receipts / args.max_letters
    dry_run,       \* FileSystemStoreProvider.dry_run
    shift,         \* which letter has which parts: letter key has Shapes[key + shift]
    budget,        \* failures the environment may show in this behaviour
    faults,        \* failures the environment has shown so far
    files,         \* the filesystem store: set of file paths
    snapshot,      \* the listing file written by report_listing, <<>> if none
    run,           \* number of fetcher invocations started
    pc,            \* position of the fetcher
    after,         \* letters cursor
    item_list,     \* all_letters / receipt_list
    total,         \* total_letters / total_receipts
    idx,           \* position of the for loop over item_list
    stored,        \* letters_stored / receipts_stored
    parts,         \* content_data['parts'] of the current letter
    pidx,          \* position of the for loop over parts (1-based)
    parts_stored,  \* parts_stored of _process_letter_parts
    pageLog,       \* history: list requests of this run and their answers
    reported,      \* history: <<argument of report_listing, whether it was
                   \* written>>, <<>> before the call
    detailLog,     \* history: keys of the detail requests of this run
    calls,         \* history: store / API calls made for the current item
    existsRes,     \* history: result of exists for the current item
    storedBefore,  \* history: the counter when the current item began
    storeTrue,     \* history: store calls of the current item that returned True
    written,       \* history: part files written for the current item
    existsTrue,    \* history: items of this run for which exists returned True
    filesAtStart,  \* history: the store when this run began
    stats,         \* the returned statistics, <<>> until the fetcher returns
    apc,           \* position of KivraAuth.authenticate
    auth_data,     \* which fields the authorize response carries
    pending,       \* poll answers with status pending so far
    clock,         \* seconds slept by the poll loop
    events,        \* history: requests and notifications of the attempt
    poll_status,   \* the status of the latest poll answer, "" before any
    token_info,    \* the returned credential, <<>> if none
    exit,          \* "" or how the attempt ended: "sys.exit", "exception"
    auth_status,   \* history: status code of the authorize response, 0 before
    token_resp,    \* history: the token response, <<>> before it
    opc,           \* position of fetch_documents, "off" outside a run of it
    fetch_receipts, \* args.fetch_receipts
    fetch_letters, \* args.fetch_letters
    ostats,        \* the stats dictionary of fetch_documents
    olog,          \* history: what fetch_documents called, in order
    exit_status,   \* the exit status of the process, NoStatus while it runs
    provider,      \* args.interaction_provider: "local", "ntfy", or "web"
    alive,         \* whether the process (and with it listen) is running
    lpc,           \* position of listen: "off", "connect", "stream", "callback",
                   \* "sleep", "serving", "dead"
    inbox,         \* trigger lines the ntfy stream holds, not yet read
    sent,          \* triggers sent to the provider so far
    runs,          \* the invocations of the callback, in the order they began
    issued,        \* bearer tokens the service has issued so far
    minted,        \* code verifiers generated so far
    drops,         \* connection failures of the ntfy stream so far
    qr_file,       \* the invocation whose code temp_dir/kivra_qr.png holds, 0: no file
    sse_clients,   \* web: provider.sse_clients, the handlers of the open event streams
    conn,          \* web: per client, its connection: "none", "open", "broken"
    hpc,           \* web: per client, where its _handle_sse thread is
    bpc,           \* web: where the thread in _send_sse_message is
    bidx,          \* web: position of the broadcast's `for client in self.sse_clients`
    clients_to_remove, \* web: the broadcast's local list of that name
    removed,       \* web: per client, how often it was removed from sse_clients
    broadcasts,    \* web: calls of _send_sse_message so far
    gq_pc,         \* position of graphql_query: "idle", "posted", "decoded",
                   \* "returned", "raised"
    gq_op,         \* operation_name of the call
    gq_status,     \* response.status_code, 0 if the post itself raised
    gq_body,       \* the response body
    gq_posts,      \* requests issued by the call
    gq_result,     \* the value returned, <<>> if none
    b64_pc,        \* how far the segment has come: "raw", "encoded",
                   \* "stripped", "restored", "decoded"
    b64_data,      \* the characters of the encoding that carry data
    b64_text,      \* the string as it stands
    b64_bytes,     \* bytes decoded from it, -1 before the decoding
    backend,       \* args.storage_provider: "filesystem" or "paperless"
    docs,          \* paperless: the documents on the server, oldest first
    entities,      \* paperless: correspondents and document types created
    ncalls,        \* calls made to the document store on its own
    last,          \* history: the latest of them and what it returned
    pre,           \* history: what was persisted before that call
    repeat         \* history: the call repeated the one before it, which
                   \* had returned True

fetchVars == <<kind, catalog, serverTotal, pageSize, srvMore, max_arg, dry_run,
               shift, budget, faults, files, snapshot, run, pc, after, item_list, total, idx,
               stored, parts, pidx, parts_stored, pageLog, reported, detailLog,
               calls, existsRes, storedBefore, storeTrue, written, existsTrue,
               filesAtStart, stats>>

authVars == <<apc, auth_data, pending, clock, events, poll_status, token_info,
             exit, auth_status, token_resp>>
orchVars == <<opc, fetch_receipts, fetch_letters, ostats, olog>>
mainVars == <<exit_status>>
listenVars == <<provider, alive, lpc, inbox, sent, runs, issued, minted, drops,
               qr_file>>
clientVars == <<gq_pc, gq_op, gq_status, gq_body, gq_posts, gq_result>>
codecVars == <<b64_pc, b64_data, b64_text, b64_bytes>>
storeVars == <<backend, docs, entities, ncalls, last, pre, repeat>>
sseVars == <<sse_clients, conn, hpc, bpc, bidx, clients_to_remove, removed, broadcasts>>
extVars == <<mainVars, listenVars, clientVars, codecVars, storeVars, sseVars>>
vars == <<fetchVars, authVars, orchVars, extVars>>

envVars == <<kind, catalog, serverTotal, pageSize, srvMore, max_arg, dry_run,
            shift, budget>>
itemHist == <<calls, existsRes, storedBefore, storeTrue, written>>

(* --------------------------- remote service --------------------------- *)
\* catalogs: item i carries key i, or a null key
Catalogs ==
    UNION { { c \in [1..n -> 0..MaxItems] :
                \A i \in 1..n : c[i] \in {i, NoKey} } : n \in 0..MaxItems }

\* ContentList(after, take): the items following the cursor, one page of them
ServerStart(a) ==
    IF a = NoKey THEN 0 ELSE CHOOSE i \in 1..Len(catalog) : catalog[i] = a
ServerPage(a) ==
    SubSeq(catalog, ServerStart(a) + 1,
           Min(ServerStart(a) + pageSize, Len(catalog)))
ServerExistsMore(a) ==
    IF srvMore = "always" THEN TRUE
    ELSE ServerStart(a) + pageSize < Len(catalog)

\* GET /v1/content/{key}: content_data['parts'] of the letter with this key
PartsOf(key) == Shapes[((key - 1 + shift) % Len(Shapes)) + 1]

(* ------------------------- filesystem store --------------------------- *)
\* _get_filepath + extension: <<kind, key, part_index or -1, suffix>>
Path(k, key, pi, suffix) == <<k, key, pi, suffix>>
JsonPath(k, key) == Path(k, key, -1, ".json")

\* FileSystemStoreProvider.exists for the JSON metadata
Exists(k, key) == JsonPath(k, key) \in files

\* variant: the parts are numbered from the last to the first
PartIndexReversed(ps, i) == IF Len(ps) > 1 THEN Len(ps) - i ELSE -1
\* part_index=part_index if len(parts) > 1 else None
PartIndex(ps, i) == IF Len(ps) > 1 THEN i - 1 ELSE -1

Call(op, ct, pi) == <<op, ct, pi>>

\* variant: store writes the file whether or not dry_run is set
StoreWrites(ct, outcome) ==
    IF outcome = "io_fail" THEN [ret |-> FALSE, suffix |-> ""]
    ELSE IF ct = "application/pdf" THEN [ret |-> TRUE, suffix |-> ".pdf"]
    ELSE IF ct = "text/plain" THEN [ret |-> TRUE, suffix |-> ".txt"]
    ELSE IF ct = "text/html"
        THEN IF outcome # "conv_fail"
             THEN [ret |-> TRUE, suffix |-> "_html.pdf"]
             ELSE [ret |-> FALSE, suffix |-> "_html.html"]
    ELSE [ret |-> FALSE, suffix |-> ""]
\* FileSystemStoreProvider.store: outcome "io_fail" is an exception while
\* writing, "conv_fail" is html_to_pdf returning None.
\* ret is the value returned, suffix the file written ("" if none).
Store(ct, outcome) ==
    IF outcome = "io_fail" THEN [ret |-> FALSE, suffix |-> ""]
    ELSE IF ct = "application/pdf"
        THEN [ret |-> TRUE, suffix |-> IF dry_run THEN "" ELSE ".pdf"]
    ELSE IF ct = "text/plain"
        THEN [ret |-> TRUE, suffix |-> IF dry_run THEN "" ELSE ".txt"]
    ELSE IF ct = "text/html"
        THEN IF outcome # "conv_fail"
             THEN [ret |-> TRUE, suffix |-> IF dry_run THEN "" ELSE "_html.pdf"]
             ELSE IF dry_run THEN [ret |-> TRUE, suffix |-> ""]
                             ELSE [ret |-> FALSE, suffix |-> "_html.html"]
    ELSE [ret |-> FALSE, suffix |-> ""]

\* the store after a store() call for part pi of item key
FilesAfter(key, pi, r) ==
    IF r.suffix = "" THEN files ELSE files \cup {Path(kind, key, pi, r.suffix)}
Wrote(key, pi, r) ==
    IF r.suffix # "" /\ Path(kind, key, pi, r.suffix) \notin files THEN 1 ELSE 0

(* ------------------------------- Init --------------------------------- *)
\* The environments: every listing, paging and max_count with a service and
\* a store that do not fail, or every listing, unlimited and on full pages,
\* with every assignment of parts to letters and up to MaxFaults failures.
InitFetch ==
    /\ kind \in {"receipts", "letters"}
    /\ catalog \in Catalogs
    /\ serverTotal \in {Len(catalog), Len(catalog) + 1}
    /\ pageSize \in 1..MaxPage
    /\ srvMore \in {"honest", "always"}
    /\ max_arg \in (-1)..MaxItems
    /\ dry_run \in BOOLEAN
    /\ shift \in 0..(Len(Shapes) - 1)
    /\ budget \in {0, MaxFaults}
    /\ faults = 0
    /\ kind = "receipts" => pageSize = MaxPage /\ srvMore = "honest" /\ shift = 0
    /\ \/ budget = 0 /\ ~dry_run /\ shift = 0
       \/ /\ budget = MaxFaults
          /\ pageSize = MaxPage
          /\ srvMore = "honest"
          /\ serverTotal = Len(catalog)
          /\ max_arg = 0
    /\ files = {}
    /\ snapshot = << >>
    /\ run = 0
    /\ pc = "idle"
    /\ after = NoKey
    /\ item_list = << >>
    /\ total = 0
    /\ idx = 0
    /\ stored = IntVal(0)
    /\ parts = << >>
    /\ pidx = 0
    /\ parts_stored = 0
    /\ pageLog = << >>
    /\ reported = << >>
    /\ detailLog = << >>
    /\ calls = << >>
    /\ existsRes = FALSE
    /\ storedBefore = IntVal(0)
    /\ storeTrue = 0
    /\ written = 0
    /\ existsTrue = 0
    /\ filesAtStart = {}
    /\ stats = << >>

\* no authentication attempt under way
AuthIdle ==
    /\ apc = "init"
    /\ auth_data = [qr_code |-> FALSE, next_poll_url |-> FALSE, code |-> FALSE]
    /\ pending = 0
    /\ clock = 0
    /\ events = << >>
    /\ poll_status = ""
    /\ token_info = << >>
    /\ exit = ""
    /\ auth_status = 0
    /\ token_resp = << >>

\* the process has not exited
NoStatus == -1
MainIdle == exit_status = NoStatus
\* the local provider: can_listen is False, listen is never called
ListenIdle ==
    /\ provider = "local"
    /\ alive = TRUE
    /\ lpc = "off"
    /\ inbox = 0
    /\ sent = 0
    /\ runs = << >>
    /\ issued = 0
    /\ minted = 0
    /\ drops = 0
    /\ qr_file = 0
\* no graphql_query call is modelled on its own
ClientIdle ==
    /\ gq_pc = "idle"
    /\ gq_op = ""
    /\ gq_status = 0
    /\ gq_body = << >>
    /\ gq_posts = 0
    /\ gq_result = << >>
\* no base64 segment is modelled on its own
CodecIdle ==
    /\ b64_pc = "raw"
    /\ b64_data = << >>
    /\ b64_text = << >>
    /\ b64_bytes = -1
\* the web provider after __init__: sse_clients = [], no event stream open,
\* no broadcast under way
Clients == 1..MaxClients
SseIdle ==
    /\ sse_clients = << >>
    /\ conn = [c \in Clients |-> "none"]
    /\ hpc = [c \in Clients |-> "idle"]
    /\ bpc = "idle"
    /\ bidx = 0
    /\ clients_to_remove = << >>
    /\ removed = [c \in Clients |-> 0]
    /\ broadcasts = 0
\* the filesystem store, used through the fetchers only
StoreIdle ==
    /\ backend = "filesystem"
    /\ docs = << >>
    /\ entities = {}
    /\ ncalls = 0
    /\ last = << >>
    /\ pre = << >>
    /\ repeat = FALSE
ExtIdle ==
    MainIdle /\ ListenIdle /\ ClientIdle /\ CodecIdle /\ StoreIdle /\ SseIdle

\* fetch_documents is not being run
OrchIdle ==
    /\ opc = "off"
    /\ fetch_receipts = TRUE
    /\ fetch_letters = TRUE
    /\ ostats = << >>
    /\ olog = << >>

(* ------------------------------ actions ------------------------------- *)
\* a step in which the environment fails (ok = FALSE) uses up one failure
Fault(ok) ==
    IF ok THEN faults' = faults
          ELSE faults < budget /\ faults' = faults + 1

\* fetch_documents constructs a fetcher and calls it with max_count
StartRun ==
    /\ pc \in {"idle", "done", "failed"}
    /\ run < MaxRuns
    /\ run' = run + 1
    /\ pc' = "list"
    /\ after' = NoKey
    /\ item_list' = << >>
    /\ total' = 0
    /\ idx' = 0
    /\ stored' = IntVal(0)
    /\ parts' = << >>
    /\ pidx' = 0
    /\ parts_stored' = 0
    /\ pageLog' = << >>
    /\ reported' = << >>
    /\ detailLog' = << >>
    /\ calls' = << >>
    /\ existsRes' = FALSE
    /\ storedBefore' = IntVal(0)
    /\ storeTrue' = 0
    /\ written' = 0
    /\ existsTrue' = 0
    /\ filesAtStart' = files
    /\ stats' = << >>
    /\ UNCHANGED <<extVars, orchVars, authVars, envVars, faults, files, snapshot>>

\* variant: the cursor is the first letter's key
NextCursorFirst(page) == page[1]
\* the cursor for the next page: the last letter's key
NextCursor(page) == page[Len(page)]

\* variant: only an empty page ends the loop
LastPageOnlyEmpty(page, more) == page = << >>
\* whether the while loop of fetch_letters stops after this page
LastPage(page, more) == ~more \/ page = << >>

\* variant: the total is the length of the list for receipts too
TotalOfListed(k, l, srvTotal) == Len(l)
\* the `total` figure: len(all_letters) for letters, the server's for receipts
TotalOf(k, l, srvTotal) == IF k = "letters" THEN Len(l) ELSE srvTotal

\* one iteration of the while loop of fetch_letters
ListLetters(ok) ==
    /\ pc = "list"
    /\ kind = "letters"
    /\ Len(pageLog) < MaxListReq
    /\ Fault(ok)
    /\ IF ~ok
       THEN /\ pageLog' = Append(pageLog, [after |-> after, list |-> << >>,
                                           existsMore |-> FALSE, ok |-> FALSE])
            /\ pc' = "failed"
            /\ UNCHANGED <<after, item_list, total>>
       ELSE LET page == ServerPage(after)
                more == ServerExistsMore(after)
            IN  /\ pageLog' = Append(pageLog, [after |-> after, list |-> page,
                                               existsMore |-> more, ok |-> TRUE])
                /\ item_list' = item_list \o page
                /\ IF LastPage(page, more)
                   THEN /\ pc' = "report"
                        /\ total' = TotalOf(kind, item_list', serverTotal)
                        /\ after' = after
                   ELSE /\ pc' = "list"
                        /\ total' = total
                        /\ after' = NextCursor(page)
    /\ UNCHANGED <<extVars, orchVars, authVars, envVars, files, snapshot, run, idx, stored, parts, pidx,
                   parts_stored, reported, detailLog, itemHist, existsTrue,
                   filesAtStart, stats>>

\* the single Receipts query of fetch_receipts
ListReceipts(ok) ==
    /\ pc = "list"
    /\ kind = "receipts"
    /\ Fault(ok)
    /\ IF ~ok
       THEN /\ pageLog' = Append(pageLog, [after |-> NoKey, list |-> << >>,
                                           existsMore |-> FALSE, ok |-> FALSE])
            /\ pc' = "failed"
            /\ UNCHANGED <<item_list, total>>
       ELSE /\ pageLog' = Append(pageLog, [after |-> NoKey, list |-> catalog,
                                           existsMore |-> FALSE, ok |-> TRUE])
            /\ item_list' = catalog
            /\ total' = TotalOf(kind, catalog, serverTotal)
            /\ pc' = "report"
    /\ UNCHANGED <<extVars, orchVars, authVars, envVars, files, snapshot, run, after, idx, stored, parts,
                   pidx, parts_stored, reported, detailLog, itemHist,
                   existsTrue, filesAtStart, stats>>

\* variant: max_count is not applied
TruncateNothing(l, arg) == l
\* the listing after `if max_count is not None: list = list[:max_count]`
Truncate(l, arg) == IF HasMax(arg) THEN PySlice(l, arg) ELSE l

\* variant: report_listing is called after the truncation
ListingToReportCut(l, arg) == Truncate(l, arg)
\* the listing handed to report_listing: the one accumulated, not yet cut
ListingToReport(l, arg) == l

\* variant: a listing that cannot be written ends the fetch
AfterReportListingStrict(ok) == IF ok THEN "items" ELSE "failed"
\* where the fetcher goes after report_listing, which catches its own failure
AfterReportListing(ok) == "items"

\* report_listing, then the truncation and the counter's initialisation
ReportListing(ok) ==
    /\ pc = "report"
    /\ Fault(ok)
    /\ reported' = <<ListingToReport(item_list, max_arg), ok>>
    /\ snapshot' = IF ok THEN <<reported'[1]>> ELSE snapshot
    /\ item_list' = Truncate(item_list, max_arg)
    /\ stored' = IntVal(0)
    /\ idx' = 1
    /\ pc' = AfterReportListing(ok)
    /\ UNCHANGED <<extVars, orchVars, authVars, envVars, files, run, after, total, parts, pidx, parts_stored,
                   pageLog, detailLog, itemHist, existsTrue, filesAtStart,
                   stats>>

\* variant: the result of exists is not looked at
AlreadyFetchedIgnored(k, key) == FALSE
\* whether the item is skipped as already fetched
AlreadyFetched(k, key) == Exists(k, key)

\* the counter returned for an item without a key (a bare `return`)
KeylessResult(c) == NoneVal

\* _process_letter / _process_receipt up to the existence check
BeginItem ==
    /\ pc = "items"
    /\ idx <= Len(item_list)
    /\ LET key == item_list[idx]
       IN  IF key = NoKey
           THEN /\ stored' = KeylessResult(stored)
                /\ calls' = << >>
                /\ existsRes' = FALSE
                /\ existsTrue' = existsTrue
                /\ pc' = "item_done"
           ELSE /\ stored' = stored
                /\ calls' = <<Call("exists", "application/json", -1)>>
                /\ existsRes' = Exists(kind, key)
                /\ IF AlreadyFetched(kind, key)
                   THEN /\ pc' = "item_done"
                        /\ existsTrue' = existsTrue + 1
                   ELSE /\ pc' = "detail"
                        /\ existsTrue' = existsTrue
    /\ storedBefore' = stored
    /\ storeTrue' = 0
    /\ written' = 0
    /\ parts' = << >>
    /\ pidx' = 0
    /\ parts_stored' = 0
    /\ UNCHANGED <<extVars, orchVars, authVars, envVars, faults, files, snapshot, run, after, item_list,
                   total, idx, pageLog, reported, detailLog, filesAtStart,
                   stats>>

\* get_content_details / the ReceiptDetails query. answer: "ok", "fail" (the
\* request raises, which _process_x catches) or "empty" (a letter detail
\* without parts)
Detail(answer) ==
    /\ pc = "detail"
    /\ answer = "empty" => kind = "letters"
    /\ Fault(answer = "ok")
    /\ calls' = Append(calls, Call("detail", "", -1))
    /\ detailLog' = Append(detailLog, item_list[idx])
    /\ IF answer = "fail"
       THEN pc' = "item_done" /\ parts' = parts
       ELSE /\ pc' = "meta"
            /\ parts' = IF kind = "letters" /\ answer = "ok"
                        THEN PartsOf(item_list[idx]) ELSE << >>
    /\ UNCHANGED <<extVars, orchVars, authVars, envVars, files, snapshot, run, after, item_list, total, idx,
                   stored, pidx, parts_stored, pageLog, reported, existsRes,
                   storedBefore, storeTrue, written, existsTrue, filesAtStart,
                   stats>>

\* variant: the metadata file gets a part index, which exists does not look for
MetadataPathWithPart(k, key) == Path(k, key, 0, ".json")
\* the file report_metadata writes
MetadataPath(k, key) == Path(k, key, -1, ".json")

\* variant: an item whose metadata cannot be written is given up
AfterMetadataStrict(k, ps, ok) ==
    IF ~ok THEN "item_done"
    ELSE IF k = "receipts" THEN "pdf"
    ELSE IF ps = << >> THEN "count" ELSE "parts"
\* where the item goes after report_metadata, whatever it returned
AfterMetadata(k, ps, ok) ==
    IF k = "receipts" THEN "pdf"
    ELSE IF ps = << >> THEN "count" ELSE "parts"

\* report_metadata of the filesystem store (its result is not looked at)
Metadata(ok) ==
    /\ pc = "meta"
    /\ Fault(ok)
    /\ calls' = Append(calls, Call("report_metadata", "application/json", -1))
    /\ files' = IF ~dry_run /\ ok
                THEN files \cup {MetadataPath(kind, item_list[idx])}
                ELSE files
    /\ pc' = AfterMetadata(kind, parts, ok)
    /\ pidx' = IF AfterMetadata(kind, parts, ok) = "parts" THEN 1 ELSE pidx
    /\ parts_stored' = 0
    /\ UNCHANGED <<extVars, orchVars, authVars, envVars, snapshot, run, after, item_list, total, idx, stored,
                   parts, pageLog, reported, detailLog, existsRes, storedBefore,
                   storeTrue, written, existsTrue, filesAtStart, stats>>

\* whether _process_letter_parts hands a part of this type to store
Storable(ct) == ct \in {"text/plain", "text/html", "application/pdf"}

\* what can happen to a part: every part can go well; a pdf's file request
\* can fail, a write can fail, the html conversion can fail
Outcomes(part) ==
    IF ~Storable(part.content_type) THEN {"ok"}
    ELSE IF part.content_type = "application/pdf"
         THEN IF part.haskey THEN {"ok", "fetch_fail", "io_fail"} ELSE {"ok"}
    ELSE IF part.content_type = "text/html"
         THEN {"ok", "io_fail", "conv_fail"}
    ELSE {"ok", "io_fail"}

\* variant: a content request that fails ends the fetch
OnContentFailureAborts == "failed"
\* where a content request that raises leaves the fetcher: the exception is
\* caught by _process_letter / _process_receipt, the item is over
OnContentFailure == "item_done"

\* one iteration of the for loop of _process_letter_parts
PartStep(outcome) ==
    /\ pc = "parts"
    /\ pidx <= Len(parts)
    /\ outcome \in Outcomes(parts[pidx])
    /\ Fault(outcome = "ok")
    /\ LET part == parts[pidx]
           ct == part.content_type
           pi == PartIndex(parts, pidx)
           key == item_list[idx]
           r == Store(ct, outcome)
           next == IF pidx = Len(parts) THEN "count" ELSE "parts"
       IN  IF ~Storable(ct) \/ (ct = "application/pdf" /\ ~part.haskey)
           THEN /\ pc' = next
                /\ pidx' = pidx + 1
                /\ UNCHANGED <<files, calls, parts_stored, storeTrue, written>>
           ELSE IF outcome = "fetch_fail"
           THEN /\ calls' = Append(calls, Call("get_content_file", ct, pi))
                /\ pc' = OnContentFailure
                /\ UNCHANGED <<files, pidx, parts_stored, storeTrue, written>>
           ELSE /\ calls' =
                    (IF ct = "application/pdf"
                     THEN Append(calls, Call("get_content_file", ct, pi))
                     ELSE calls) \o <<Call("store", ct, pi)>>
                /\ files' = FilesAfter(key, pi, r)
                /\ written' = written + Wrote(key, pi, r)
                /\ storeTrue' = storeTrue + (IF r.ret THEN 1 ELSE 0)
                /\ parts_stored' = parts_stored + (IF r.ret THEN 1 ELSE 0)
                /\ pidx' = pidx + 1
                /\ pc' = next
    /\ UNCHANGED <<extVars, orchVars, authVars, envVars, snapshot, run, after, item_list, total, idx, stored,
                   parts, pageLog, reported, detailLog, existsRes, storedBefore,
                   existsTrue, filesAtStart, stats>>

\* `if parts_stored > 0: letters_stored += 1`
CountItem(c, n) == IF n > 0 THEN Increment(c) ELSE c

\* the end of _process_letter's try block
Count ==
    /\ pc = "count"
    /\ stored' = CountItem(stored, parts_stored)
    /\ pc' = "item_done"
    /\ UNCHANGED <<extVars, orchVars, authVars, envVars, faults, files, snapshot, run, after, item_list,
                   total, idx, parts, pidx, parts_stored, pageLog, reported,
                   detailLog, itemHist, existsTrue, filesAtStart, stats>>

\* _fetch_and_store_pdf and `if ...: receipts_stored += 1`
ReceiptPdf(outcome) ==
    /\ pc = "pdf"
    /\ outcome \in Outcomes(PdfPart)
    /\ Fault(outcome = "ok")
    /\ LET key == item_list[idx]
           r == Store("application/pdf", outcome)
       IN  IF outcome = "fetch_fail"
           THEN /\ calls' = Append(calls, Call("get_pdf", "application/pdf", -1))
                /\ pc' = OnContentFailure
                /\ UNCHANGED <<files, stored, storeTrue, written>>
           ELSE /\ calls' = calls \o <<Call("get_pdf", "application/pdf", -1),
                                       Call("store", "application/pdf", -1)>>
                /\ files' = FilesAfter(key, -1, r)
                /\ written' = written + Wrote(key, -1, r)
                /\ storeTrue' = storeTrue + (IF r.ret THEN 1 ELSE 0)
                /\ stored' = CountItem(stored, IF r.ret THEN 1 ELSE 0)
                /\ pc' = "item_done"
    /\ UNCHANGED <<extVars, orchVars, authVars, envVars, snapshot, run, after, item_list, total, idx, parts,
                   pidx, parts_stored, pageLog, reported, detailLog, existsRes,
                   storedBefore, existsTrue, filesAtStart, stats>>

\* the for loop over the listing moves to the next item
NextItem ==
    /\ pc = "item_done"
    /\ idx' = idx + 1
    /\ pc' = "items"
    /\ UNCHANGED <<extVars, orchVars, authVars, envVars, faults, files, snapshot, run, after, item_list,
                   total, stored, parts, pidx, parts_stored, pageLog, reported,
                   detailLog, itemHist, existsTrue, filesAtStart, stats>>

\* the `fetched` figure of the returned statistics
Fetched(k, l, arg) ==
    IF k = "letters" THEN Len(Truncate(l, arg)) ELSE Len(l)

\* the fetcher returns its statistics
Finish ==
    /\ pc = "items"
    /\ idx > Len(item_list)
    /\ stats' = <<[total |-> total,
                   fetched |-> Fetched(kind, item_list, max_arg),
                   stored |-> stored]>>
    /\ pc' = "done"
    /\ UNCHANGED <<extVars, orchVars, authVars, envVars, faults, files, snapshot, run, after, item_list,
                   total, idx, stored, parts, pidx, parts_stored, pageLog,
                   reported, detailLog, itemHist, existsTrue, filesAtStart>>

PartOutcomes == {"ok", "fetch_fail", "io_fail", "conv_fail"}

NextFetch ==
    \/ StartRun
    \/ \E ok \in BOOLEAN : ListLetters(ok)
    \/ \E ok \in BOOLEAN : ListReceipts(ok)
    \/ \E ok \in BOOLEAN : ReportListing(ok)
    \/ BeginItem
    \/ \E answer \in {"ok", "fail", "empty"} : Detail(answer)
    \/ \E ok \in BOOLEAN : Metadata(ok)
    \/ \E outcome \in PartOutcomes : PartStep(outcome)
    \/ Count
    \/ \E outcome \in PartOutcomes : ReceiptPdf(outcome)
    \/ NextItem
    \/ Finish

\* the fetchers on their own, the session authenticated
Init == InitFetch /\ AuthIdle /\ OrchIdle /\ ExtIdle

SpecFetch == Init /\ [][NextFetch]_vars

(* --------------------------- authentication --------------------------- *)
\* time.sleep(5) of the poll loop
PollInterval == 5

\* no fetcher at work: an empty account, a fresh store
FetchIdle ==
    /\ kind = "receipts"
    /\ catalog = << >>
    /\ serverTotal = 0
    /\ pageSize = MaxPage
    /\ srvMore = "honest"
    /\ max_arg = 0
    /\ dry_run = FALSE
    /\ shift = 0
    /\ budget = 0
    /\ faults = 0
    /\ files = {}
    /\ snapshot = << >>
    /\ run = 0
    /\ pc = "idle"
    /\ after = NoKey
    /\ item_list = << >>
    /\ total = 0
    /\ idx = 0
    /\ stored = IntVal(0)
    /\ parts = << >>
    /\ pidx = 0
    /\ parts_stored = 0
    /\ pageLog = << >>
    /\ reported = << >>
    /\ detailLog = << >>
    /\ calls = << >>
    /\ existsRes = FALSE
    /\ storedBefore = IntVal(0)
    /\ storeTrue = 0
    /\ written = 0
    /\ existsTrue = 0
    /\ filesAtStart = {}
    /\ stats = << >>

\* the authorize responses: which of the three fields are present
AuthData == [qr_code : BOOLEAN, next_poll_url : BOOLEAN, code : BOOLEAN]

\* variant: every status of the authorize response is accepted
AcceptedAnyStatus(status) == TRUE
\* `if r.status_code not in [201, 202]`
Accepted(status) == status \in {201, 202}

\* the status values of a poll answer that the loop tells apart
PollStatuses == {"complete", "pending", "failed"}

\* what the token response's id_token can look like
TokenShapes == {"ok", "missing", "one_segment", "bad_payload", "no_actor"}

\* authenticate: the session GET, the verifier and challenge, the authorize
\* POST and the check of its answer
Authorize(status, data) ==
    /\ apc = "init"
    /\ events' = events \o <<"GET app", "POST authorize">>
    /\ auth_data' = data
    /\ auth_status' = status
    /\ IF ~Accepted(status) \/ ~data.qr_code \/ ~data.code
       THEN apc' = "aborted" /\ exit' = "sys.exit"
       ELSE apc' = "qr" /\ exit' = exit
    /\ UNCHANGED <<extVars, orchVars, fetchVars, pending, clock, poll_status, token_info,
                   token_resp>>

\* what showing the code can meet: "image_fail" is the QR image that cannot be
\* written (raises in authenticate), "display_fail" a provider that cannot
\* deliver it (every provider catches that and logs it)
DisplayOutcomes == {"ok", "image_fail", "display_fail"}

\* variant: a display that fails aborts the authentication
AfterDisplayStrict(outcome) == IF outcome = "ok" THEN "poll" ELSE "aborted"
\* where authenticate goes after the display step
AfterDisplay(outcome) == IF outcome = "image_fail" THEN "aborted" ELSE "poll"

\* the QR image is written and handed to display_qr_code
DisplayQr(outcome) ==
    /\ apc = "qr"
    /\ outcome \in DisplayOutcomes
    /\ events' = IF outcome = "ok" THEN Append(events, "display_qr_code")
                 ELSE IF outcome = "display_fail"
                      THEN Append(events, "display_qr_code failed")
                      ELSE events
    /\ apc' = AfterDisplay(outcome)
    /\ exit' = IF AfterDisplay(outcome) = "aborted" THEN "exception" ELSE exit
    /\ UNCHANGED <<extVars, orchVars, fetchVars, auth_data, pending, clock, poll_status,
                   token_info, auth_status, token_resp>>

\* variant: the success is not reported
AfterPollSilent(status) ==
    IF status = "complete" THEN "token"
    ELSE IF status = "pending" THEN "poll"
    ELSE "aborted"
\* variant: the loop gives up on a pending answer
AfterPollGivesUp(status) ==
    IF status = "complete" THEN "notify" ELSE "aborted"
\* variant: every answer that is not pending proceeds to the token exchange
AfterPollLenient(status) ==
    IF status = "pending" THEN "poll" ELSE "notify"
\* where the poll loop goes on a poll answer
AfterPoll(status) ==
    IF status = "complete" THEN "notify"
    ELSE IF status = "pending" THEN "poll"
    ELSE "aborted"

\* one iteration of the while loop of _poll_for_auth, up to the dispatch on
\* the status; "error" is a poll request that raises, as does every request
\* to the address made of a missing next_poll_url
Poll(status) ==
    /\ apc = "poll"
    /\ status = "pending" => pending < MaxPolls
    /\ ~auth_data.next_poll_url => status = "error"
    /\ clock' = clock + PollInterval
    /\ events' = events \o <<"sleep", "GET poll">>
    /\ poll_status' = status
    /\ IF status = "error"
       THEN apc' = "aborted" /\ exit' = "exception" /\ pending' = pending
       ELSE /\ apc' = AfterPoll(status)
            /\ pending' = IF status = "pending" THEN pending + 1 ELSE pending
            /\ exit' = IF AfterPoll(status) = "aborted" THEN "sys.exit" ELSE exit
    /\ UNCHANGED <<extVars, orchVars, fetchVars, auth_data, token_info, auth_status,
                   token_resp>>

\* status complete: report_authentication_success
Notify(ok) ==
    /\ apc = "notify"
    /\ events' = Append(events, "report_authentication_success")
    /\ IF ok THEN apc' = "token" /\ exit' = exit
             ELSE apc' = "aborted" /\ exit' = "exception"
    /\ UNCHANGED <<extVars, orchVars, fetchVars, auth_data, pending, clock, poll_status,
                   token_info, auth_status, token_resp>>

\* variant: the id_token is not looked at
IdTokenOutcomeLenient(shape) == "ok"
\* how the decoding of the id_token ends: a missing id_token and a payload
\* that is not a JSON object raise, fewer than two segments and a payload
\* without kivra_user_id are sys.exit
IdTokenOutcome(shape) ==
    IF shape \in {"one_segment", "no_actor"} THEN "sys.exit"
    ELSE IF shape \in {"missing", "bad_payload"} THEN "exception"
    ELSE "ok"

\* the token POST, the decoding of the id_token and the return
Token(status, shape, access) ==
    /\ apc = "token"
    /\ events' = Append(events, "POST token")
    /\ token_resp' = <<[status |-> status, id_token |-> shape,
                        access_token |-> access]>>
    /\ IF status # 200
       THEN apc' = "aborted" /\ exit' = "sys.exit" /\ token_info' = token_info
       ELSE IF IdTokenOutcome(shape) # "ok"
       THEN /\ apc' = "aborted"
            /\ exit' = IdTokenOutcome(shape)
            /\ token_info' = token_info
       ELSE /\ apc' = "done"
            /\ exit' = exit
            /\ token_info' = <<[access_token |-> access, actor_key |-> TRUE]>>
    /\ UNCHANGED <<extVars, orchVars, fetchVars, auth_data, pending, clock, poll_status,
                   auth_status>>

NextAuth ==
    \/ \E status \in {201, 202, 400}, data \in AuthData : Authorize(status, data)
    \/ \E outcome \in DisplayOutcomes : DisplayQr(outcome)
    \/ \E status \in PollStatuses \cup {"error"} : Poll(status)
    \/ \E ok \in BOOLEAN : Notify(ok)
    \/ \E status \in {200, 401}, shape \in TokenShapes, access \in BOOLEAN :
           Token(status, shape, access)

\* an authentication attempt on its own
InitAuth == FetchIdle /\ AuthIdle /\ OrchIdle /\ ExtIdle

SpecAuth == InitAuth /\ [][NextAuth]_vars

(* ---------------------------- orchestrator ---------------------------- *)
\* the stats dictionary before any fetcher has returned
ZeroStats == [total |-> 0, fetched |-> 0, stored |-> IntVal(0)]
InitialStats == [receipts |-> ZeroStats, letters |-> ZeroStats]

\* args.fetch_receipts / args.fetch_letters
Enabled(k) == IF k = "receipts" THEN fetch_receipts ELSE fetch_letters

\* variant: the completion is reported right after the receipts
AfterKindReportsEarly(k) == "report"
\* the position of fetch_documents after its block for kind k
AfterKind(k) == IF k = "receipts" THEN "letters" ELSE "report"

\* stats.update(receipt_stats) / stats.update(letter_stats)
Merge(s, k, returned) == [s EXCEPT ![k] = returned]

\* fetch_documents has called authenticate; one account, one store, the
\* listing of either kind read from the same catalog
InitRun ==
    /\ InitFetch
    /\ Len(catalog) <= MaxRunItems
    /\ kind = "receipts"
    /\ max_arg = 0
    /\ ~dry_run
    /\ shift = 0
    /\ serverTotal = Len(catalog)
    /\ AuthIdle
    /\ opc = "auth"
    /\ fetch_receipts \in BOOLEAN
    /\ fetch_letters \in BOOLEAN
    /\ ostats = << >>
    /\ olog = <<"authenticate">>
    /\ ExtIdle

\* authenticate returned the credential: the API client and the stats
AuthReturns ==
    /\ opc = "auth"
    /\ apc = "done"
    /\ ostats' = <<InitialStats>>
    /\ opc' = "receipts"
    /\ UNCHANGED <<extVars, fetchVars, authVars, fetch_receipts, fetch_letters, olog>>

\* authenticate did not return: an exception is caught by fetch_documents,
\* which returns 1; sys.exit is not an Exception and passes through
AuthAborts ==
    /\ opc = "auth"
    /\ apc = "aborted"
    /\ opc' = IF exit = "sys.exit" THEN "exited" ELSE "returned1"
    /\ UNCHANGED <<extVars, fetchVars, authVars, fetch_receipts, fetch_letters, ostats,
                   olog>>

\* `if args.fetch_x:` holds: the fetcher is constructed and called
StartFetcher(k) ==
    /\ opc = k
    /\ Enabled(k)
    /\ opc' = IF k = "receipts" THEN "in_receipts" ELSE "in_letters"
    /\ olog' = Append(olog, IF k = "receipts" THEN "fetch_receipts"
                                              ELSE "fetch_letters")
    /\ kind' = k
    /\ run' = run + 1
    /\ pc' = "list"
    /\ after' = NoKey
    /\ item_list' = << >>
    /\ total' = 0
    /\ idx' = 0
    /\ stored' = IntVal(0)
    /\ parts' = << >>
    /\ pidx' = 0
    /\ parts_stored' = 0
    /\ pageLog' = << >>
    /\ reported' = << >>
    /\ detailLog' = << >>
    /\ calls' = << >>
    /\ existsRes' = FALSE
    /\ storedBefore' = IntVal(0)
    /\ storeTrue' = 0
    /\ written' = 0
    /\ existsTrue' = 0
    /\ filesAtStart' = files
    /\ stats' = << >>
    /\ UNCHANGED <<extVars, authVars, catalog, serverTotal, pageSize, srvMore, max_arg,
                   dry_run, shift, budget, faults, files, snapshot,
                   fetch_receipts, fetch_letters, ostats>>

\* `if args.fetch_x:` does not hold
SkipFetcher(k) ==
    /\ opc = k
    /\ ~Enabled(k)
    /\ opc' = AfterKind(k)
    /\ UNCHANGED <<extVars, fetchVars, authVars, fetch_receipts, fetch_letters, ostats,
                   olog>>

\* the fetcher returned its statistics, which are merged
FetcherReturns ==
    /\ opc \in {"in_receipts", "in_letters"}
    /\ pc = "done"
    /\ ostats' = <<Merge(ostats[1], kind, stats[1])>>
    /\ olog' = Append(olog, IF kind = "receipts" THEN "receipts_returned"
                                                 ELSE "letters_returned")
    /\ opc' = AfterKind(kind)
    /\ UNCHANGED <<extVars, fetchVars, authVars, fetch_receipts, fetch_letters>>

\* the fetcher raised (its list request failed): fetch_documents returns 1
FetcherRaises ==
    /\ opc \in {"in_receipts", "in_letters"}
    /\ pc = "failed"
    /\ opc' = "returned1"
    /\ UNCHANGED <<extVars, fetchVars, authVars, fetch_receipts, fetch_letters, ostats,
                   olog>>

\* interaction_provider.report_completion(stats), then return 0; a report
\* that raises is caught and makes it return 1
ReportCompletion(ok) ==
    /\ opc = "report"
    /\ Fault(ok)
    /\ olog' = Append(olog, "report_completion")
    /\ opc' = IF ok THEN "returned0" ELSE "returned1"
    /\ UNCHANGED <<extVars, authVars, envVars, files, snapshot, run, pc, after,
                   item_list, total, idx, stored, parts, pidx, parts_stored,
                   pageLog, reported, detailLog, itemHist, existsTrue,
                   filesAtStart, stats, fetch_receipts, fetch_letters, ostats>>

\* variant: the process reports success whatever fetch_documents did
ExitStatusZero(o) == 0
\* the exit status main gives the process: fetch_documents' return value, or
\* 1 for a sys.exit("message") raised by authenticate
ExitStatus(o) == IF o = "returned0" THEN 0 ELSE 1

\* main without a listening provider: sys.exit(fetch_documents(...)), or the
\* SystemExit of authenticate reaching the top of the program
ProcessExit ==
    /\ opc \in {"returned0", "returned1", "exited"}
    /\ exit_status = NoStatus
    /\ exit_status' = ExitStatus(opc)
    /\ UNCHANGED <<sseVars, fetchVars, authVars, orchVars, listenVars, clientVars, codecVars,
                   storeVars>>

NextRun ==
    \/ \E status \in {201, 202, 400}, data \in AuthData : Authorize(status, data)
    \/ \E outcome \in DisplayOutcomes : DisplayQr(outcome)
    \/ \E status \in PollStatuses \cup {"error"} : Poll(status)
    \/ \E ok \in BOOLEAN : Notify(ok)
    \/ \E status \in {200, 401}, shape \in TokenShapes, access \in BOOLEAN :
           Token(status, shape, access)
    \/ AuthReturns
    \/ AuthAborts
    \/ \E k \in {"receipts", "letters"} : StartFetcher(k)
    \/ \E k \in {"receipts", "letters"} : SkipFetcher(k)
    \/ \E ok \in BOOLEAN : ListLetters(ok)
    \/ \E ok \in BOOLEAN : ListReceipts(ok)
    \/ \E ok \in BOOLEAN : ReportListing(ok)
    \/ BeginItem
    \/ \E answer \in {"ok", "fail", "empty"} : Detail(answer)
    \/ \E ok \in BOOLEAN : Metadata(ok)
    \/ \E outcome \in PartOutcomes : PartStep(outcome)
    \/ Count
    \/ \E outcome \in PartOutcomes : ReceiptPdf(outcome)
    \/ NextItem
    \/ Finish
    \/ FetcherReturns
    \/ FetcherRaises
    \/ \E ok \in BOOLEAN : ReportCompletion(ok)
    \/ ProcessExit

SpecRun == InitRun /\ [][NextRun]_vars

(* ------------------------ listening providers ------------------------- *)
\* what one invocation of fetch_documents comes to: it returns 0, it returns
\* 1 (an Exception was caught), or a sys.exit of authenticate leaves it
RunEnds == {"returned0", "returned1", "exited"}
\* the phases in which an invocation is at work
InFlight == {"start", "auth", "qr", "show", "poll", "fetch", "report"} \cup RunEnds

\* the callback has just been invoked: nothing authenticated, nothing sent,
\* no code shown (shown: the invocation whose code display_qr_code showed)
NewRun(first) ==
    [phase |-> first, verifier |-> 0, authorizes |-> 0, token |-> 0,
     base |-> issued, used |-> {}, report |-> "none", shown |-> 0]

\* the other program state is at rest while the provider listens
RunIdle ==
    /\ FetchIdle
    /\ AuthIdle
    /\ OrchIdle
    /\ MainIdle

\* main with a provider whose can_listen is True: listen(callback)
InitListen ==
    /\ RunIdle
    /\ provider \in {"ntfy", "web"}
    /\ alive = TRUE
    /\ lpc = IF provider = "ntfy" THEN "connect" ELSE "serving"
    /\ inbox = 0
    /\ sent = 0
    /\ runs = << >>
    /\ issued = 0
    /\ minted = 0
    /\ drops = 0
    /\ qr_file = 0
    /\ ClientIdle
    /\ CodecIdle
    /\ StoreIdle
    /\ SseIdle

\* ntfy: requests.get(url, stream=True); a status other than 200 or a
\* request that raises is followed by time.sleep(10)
Connect(ok) ==
    /\ provider = "ntfy"
    /\ alive
    /\ lpc = "connect"
    /\ IF ok THEN drops' = drops ELSE drops < MaxDrops /\ drops' = drops + 1
    /\ lpc' = IF ok THEN "stream" ELSE "sleep"
    /\ UNCHANGED <<sseVars, fetchVars, authVars, orchVars, mainVars, clientVars, codecVars,
                   storeVars, provider, alive,
                   inbox, sent, runs, issued, minted, qr_file>>

\* ntfy: the sleep is over, `while True` goes round
Reconnect ==
    /\ provider = "ntfy"
    /\ alive
    /\ lpc = "sleep"
    /\ lpc' = "connect"
    /\ UNCHANGED <<sseVars, fetchVars, authVars, orchVars, mainVars, clientVars, codecVars,
                   storeVars, provider, alive,
                   inbox, sent, runs, issued, minted, drops, qr_file>>

\* ntfy: the stream breaks while iter_lines waits; the lines not yet read
\* are gone with the connection
StreamBreaks ==
    /\ provider = "ntfy"
    /\ alive
    /\ lpc = "stream"
    /\ drops < MaxDrops
    /\ drops' = drops + 1
    /\ inbox' = 0
    /\ lpc' = "sleep"
    /\ UNCHANGED <<sseVars, fetchVars, authVars, orchVars, mainVars, clientVars, codecVars,
                   storeVars, provider, alive,
                   sent, runs, issued, minted, qr_file>>

\* web: _handle_trigger starts a thread for every POST /trigger
WebAccepts(rs) == TRUE

\* somebody sends the trigger message / posts to /trigger.
\* ntfy: the line reaches the open stream (also while the callback runs); a
\* message sent while no stream is open is not delivered.
\* web: the handler answers 200 and starts run_sync in a new daemon thread.
Trigger ==
    /\ alive
    /\ sent < MaxTriggers
    /\ sent' = sent + 1
    /\ IF provider = "ntfy"
       THEN /\ inbox' = IF lpc \in {"stream", "callback"} THEN inbox + 1
                                                          ELSE inbox
            /\ runs' = runs
       ELSE /\ inbox' = inbox
            /\ runs' = IF WebAccepts(runs) THEN Append(runs, NewRun("start"))
                                           ELSE runs
    /\ UNCHANGED <<sseVars, fetchVars, authVars, orchVars, mainVars, clientVars, codecVars,
                   storeVars, provider, alive,
                   lpc, issued, minted, drops, qr_file>>

\* ntfy: iter_lines yields a line whose message is the trigger message and
\* listen calls callback() on its own thread
Dispatch ==
    /\ provider = "ntfy"
    /\ alive
    /\ lpc = "stream"
    /\ inbox > 0
    /\ inbox' = inbox - 1
    /\ runs' = Append(runs, NewRun("auth"))
    /\ lpc' = "callback"
    /\ UNCHANGED <<sseVars, fetchVars, authVars, orchVars, mainVars, clientVars, codecVars,
                   storeVars, provider, alive,
                   sent, issued, minted, drops, qr_file>>

\* web run_sync: the "processing" event is sent before the callback; if the
\* send raises, the except branch sends a status=error event and the thread
\* ends without having called the callback
WebStart(r, ok) ==
    /\ provider = "web"
    /\ alive
    /\ r \in 1..Len(runs)
    /\ runs[r].phase = "start"
    /\ runs' = [runs EXCEPT ![r].phase = IF ok THEN "auth" ELSE "over",
                            ![r].report = IF ok THEN "none" ELSE "error"]
    /\ UNCHANGED <<sseVars, fetchVars, authVars, orchVars, mainVars, clientVars, codecVars,
                   storeVars, provider, alive,
                   lpc, inbox, sent, issued, minted, drops, qr_file>>

\* fetch_documents: KivraAuth(...).authenticate, up to the authorize
\* request: a code verifier is generated and the request made; it is
\* answered with a QR code, raises an Exception (caught: return 1) or is
\* refused (sys.exit)
RunAuthenticate(r, outcome) ==
    /\ alive
    /\ r \in 1..Len(runs)
    /\ runs[r].phase = "auth"
    /\ minted' = minted + 1
    /\ runs' = [runs EXCEPT
                  ![r].verifier = minted + 1,
                  ![r].authorizes = @ + 1,
                  ![r].phase = IF outcome = "ok" THEN "qr"
                               ELSE IF outcome = "exception" THEN "returned1"
                               ELSE "exited"]
    /\ UNCHANGED <<sseVars, fetchVars, authVars, orchVars, mainVars, clientVars, codecVars,
                   storeVars, provider, alive,
                   lpc, inbox, sent, issued, drops, qr_file>>

\* authenticate: img.save(temp_path) writes the invocation's code over
\* whatever the path holds; temp_path is
\* os.path.join(self.temp_dir, "kivra_qr.png"), one path for all invocations
RunSaveQr(r) ==
    /\ alive
    /\ r \in 1..Len(runs)
    /\ runs[r].phase = "qr"
    /\ qr_file' = r
    /\ runs' = [runs EXCEPT ![r].phase = "show"]
    /\ UNCHANGED <<sseVars, fetchVars, authVars, orchVars, mainVars, clientVars, codecVars,
                   storeVars, provider, alive,
                   lpc, inbox, sent, issued, minted, drops>>

\* display_qr_code(temp_path): the provider reads the file as it is now (web
\* copies it to temp_dir/qr.png, ntfy posts its bytes); a file that is gone
\* or a send that fails is caught and logged and authenticate goes on
RunDisplayQr(r, ok) ==
    /\ alive
    /\ r \in 1..Len(runs)
    /\ runs[r].phase = "show"
    /\ runs' = [runs EXCEPT
                  ![r].shown = IF ok THEN qr_file ELSE 0,
                  ![r].phase = "poll"]
    /\ UNCHANGED <<sseVars, fetchVars, authVars, orchVars, mainVars, clientVars, codecVars,
                   storeVars, provider, alive,
                   lpc, inbox, sent, issued, minted, drops, qr_file>>

\* _poll_for_auth, then os.remove(temp_path) in try/except: polling ends
\* with a credential and the file at the path is removed, whoever wrote it;
\* an Exception (caught: return 1) or sys.exit leaves the file where it is
RunPoll(r, outcome) ==
    /\ alive
    /\ r \in 1..Len(runs)
    /\ runs[r].phase = "poll"
    /\ issued' = IF outcome = "ok" THEN issued + 1 ELSE issued
    /\ qr_file' = IF outcome = "ok" THEN 0 ELSE qr_file
    /\ runs' = [runs EXCEPT
                  ![r].token = IF outcome = "ok" THEN issued + 1 ELSE 0,
                  ![r].phase = IF outcome = "ok" THEN "fetch"
                               ELSE IF outcome = "exception" THEN "returned1"
                               ELSE "exited"]
    /\ UNCHANGED <<sseVars, fetchVars, authVars, orchVars, mainVars, clientVars, codecVars,
                   storeVars, provider, alive,
                   lpc, inbox, sent, minted, drops>>

\* variant: the credential of the invocation before is used again
TokenOfCached(rs, r) ==
    IF r > 1 /\ rs[r - 1].token # 0 THEN rs[r - 1].token ELSE rs[r].token
\* the bearer token of the invocation's requests:
\* KivraApiClient(token_info['access_token'], ...), a local of fetch_documents
TokenOf(rs, r) == rs[r].token

\* the fetchers: requests with the API client; one that fails is re-raised,
\* caught by fetch_documents and makes it return 1
RunFetch(r, ok) ==
    /\ alive
    /\ r \in 1..Len(runs)
    /\ runs[r].phase = "fetch"
    /\ runs' = [runs EXCEPT
                  ![r].used = @ \cup {TokenOf(runs, r)},
                  ![r].phase = IF ok THEN "report" ELSE "returned1"]
    /\ UNCHANGED <<sseVars, fetchVars, authVars, orchVars, mainVars, clientVars, codecVars,
                   storeVars, provider, alive,
                   lpc, inbox, sent, issued, minted, drops, qr_file>>

\* report_completion(stats), then return 0. The ntfy provider catches a
\* failure of its own post and returns; with the web provider a send that
\* raises is caught by fetch_documents, which returns 1.
RunReport(r, ok) ==
    /\ alive
    /\ r \in 1..Len(runs)
    /\ runs[r].phase = "report"
    /\ runs' = [runs EXCEPT
                  ![r].report = IF ok THEN "completion" ELSE "none",
                  ![r].phase = IF ok \/ provider = "ntfy" THEN "returned0"
                                                          ELSE "returned1"]
    /\ UNCHANGED <<sseVars, fetchVars, authVars, orchVars, mainVars, clientVars, codecVars,
                   storeVars, provider, alive,
                   lpc, inbox, sent, issued, minted, drops, qr_file>>

\* whether the listener survives the end of an invocation: a return always;
\* SystemExit is not an Exception, so ntfy's `except Exception` lets it
\* through and listen ends, while in a web thread it ends the thread only
Survives(p, end) == end # "exited" \/ p = "web"

\* what has been reported once the callback is over: ntfy ignores the value
\* returned; web's run_sync sends status=error only in `except Exception`,
\* which neither a return value nor SystemExit reaches
ReportAtEnd(p, end, rep) == rep

\* the callback is over: it returned, or SystemExit left it
RunOver(r) ==
    /\ alive
    /\ r \in 1..Len(runs)
    /\ runs[r].phase \in RunEnds
    /\ runs' = [runs EXCEPT
                  ![r].phase = "over",
                  ![r].report = ReportAtEnd(provider, runs[r].phase, @)]
    /\ alive' = Survives(provider, runs[r].phase)
    /\ lpc' = IF provider = "web" THEN lpc
              ELSE IF Survives(provider, runs[r].phase) THEN "stream"
              ELSE "dead"
    /\ exit_status' = IF Survives(provider, runs[r].phase) THEN exit_status
                                                            ELSE 1
    /\ UNCHANGED <<sseVars, fetchVars, authVars, orchVars, clientVars, codecVars,
                   storeVars, provider, inbox,
                   sent, issued, minted, drops, qr_file>>

AuthOutcomes == {"ok", "exception", "sys.exit"}

NextListen ==
    \/ \E ok \in BOOLEAN : Connect(ok)
    \/ Reconnect
    \/ StreamBreaks
    \/ Trigger
    \/ Dispatch
    \/ \E r \in 1..MaxTriggers, ok \in BOOLEAN : WebStart(r, ok)
    \/ \E r \in 1..MaxTriggers, outcome \in AuthOutcomes :
           RunAuthenticate(r, outcome)
    \/ \E r \in 1..MaxTriggers : RunSaveQr(r)
    \/ \E r \in 1..MaxTriggers, ok \in BOOLEAN : RunDisplayQr(r, ok)
    \/ \E r \in 1..MaxTriggers, outcome \in AuthOutcomes : RunPoll(r, outcome)
    \/ \E r \in 1..MaxTriggers, ok \in BOOLEAN : RunFetch(r, ok)
    \/ \E r \in 1..MaxTriggers, ok \in BOOLEAN : RunReport(r, ok)
    \/ \E r \in 1..MaxTriggers : RunOver(r)

SpecListen == InitListen /\ [][NextListen]_vars


(* -------------------- web provider: event streams --------------------- *)
\* the sequence without its first occurrence of c: list.remove(c)
RECURSIVE Remove(_, _)
Remove(l, c) ==
    IF l = << >> THEN << >>
    ELSE IF Head(l) = c THEN Tail(l)
    ELSE <<Head(l)>> \o Remove(Tail(l), c)
\* `client in list`
In(c, l) == \E i \in 1..Len(l) : l[i] = c

\* the web provider is listening: no run, no event stream yet
InitSse ==
    /\ RunIdle
    /\ provider = "web"
    /\ alive = TRUE
    /\ lpc = "serving"
    /\ inbox = 0
    /\ sent = 0
    /\ runs = << >>
    /\ issued = 0
    /\ minted = 0
    /\ drops = 0
    /\ qr_file = 0
    /\ ClientIdle
    /\ CodecIdle
    /\ StoreIdle
    /\ SseIdle

\* _handle_sse, GET /events: provider.sse_clients.append(self); the handler
\* thread then sleeps between heartbeats
SseJoin(c) ==
    /\ hpc[c] = "idle"
    /\ sse_clients' = Append(sse_clients, c)
    /\ conn' = [conn EXCEPT ![c] = "open"]
    /\ hpc' = [hpc EXCEPT ![c] = "joined"]
    /\ UNCHANGED <<fetchVars, authVars, orchVars, mainVars, listenVars, clientVars,
                   codecVars, storeVars, bpc, bidx, clients_to_remove, removed,
                   broadcasts>>

\* the browser goes away: writes to the connection raise from now on
Disconnect(c) ==
    /\ conn[c] = "open"
    /\ conn' = [conn EXCEPT ![c] = "broken"]
    /\ UNCHANGED <<fetchVars, authVars, orchVars, mainVars, listenVars, clientVars,
                   codecVars, storeVars, sse_clients, hpc, bpc, bidx,
                   clients_to_remove, removed, broadcasts>>

\* _handle_sse: the heartbeat write raises and the bare except evaluates
\* `self in provider.sse_clients`
HandlerCheck(c) ==
    /\ hpc[c] = "joined"
    /\ conn[c] = "broken"
    /\ hpc' = [hpc EXCEPT ![c] = IF In(c, sse_clients) THEN "remove" ELSE "gone"]
    /\ UNCHANGED <<fetchVars, authVars, orchVars, mainVars, listenVars, clientVars,
                   codecVars, storeVars, sse_clients, conn, bpc, bidx,
                   clients_to_remove, removed, broadcasts>>

\* _handle_sse: provider.sse_clients.remove(self), a step of its own after
\* the membership test; list.remove raises ValueError for an absent element
HandlerRemove(c) ==
    /\ hpc[c] = "remove"
    /\ IF In(c, sse_clients)
       THEN /\ sse_clients' = Remove(sse_clients, c)
            /\ removed' = [removed EXCEPT ![c] = @ + 1]
            /\ hpc' = [hpc EXCEPT ![c] = "gone"]
       ELSE /\ hpc' = [hpc EXCEPT ![c] = "raised"]
            /\ UNCHANGED <<sse_clients, removed>>
    /\ UNCHANGED <<fetchVars, authVars, orchVars, mainVars, listenVars, clientVars,
                   codecVars, storeVars, conn, bpc, bidx, clients_to_remove,
                   broadcasts>>

\* a sync thread calls _send_sse_message: clients_to_remove = [] and the
\* for loop starts at the head of the shared list
BroadcastStart ==
    /\ bpc \in {"idle", "done", "raised"}
    /\ broadcasts < MaxBroadcasts
    /\ broadcasts' = broadcasts + 1
    /\ bpc' = "loop"
    /\ bidx' = 1
    /\ clients_to_remove' = << >>
    /\ UNCHANGED <<fetchVars, authVars, orchVars, mainVars, listenVars, clientVars,
                   codecVars, storeVars, sse_clients, conn, hpc, removed>>

\* one pass of the loop: the iterator takes the element at its position in
\* the list as it is now; the write to a broken connection raises
\* BrokenPipeError / ConnectionResetError and the client is collected
BroadcastWrite ==
    /\ bpc = "loop"
    /\ bidx <= Len(sse_clients)
    /\ clients_to_remove' =
          IF conn[sse_clients[bidx]] = "broken"
          THEN Append(clients_to_remove, sse_clients[bidx])
          ELSE clients_to_remove
    /\ bidx' = bidx + 1
    /\ UNCHANGED <<fetchVars, authVars, orchVars, mainVars, listenVars, clientVars,
                   codecVars, storeVars, sse_clients, conn, hpc, bpc, removed,
                   broadcasts>>

\* the iterator is past the end of the list: the removal loop begins
BroadcastLoopEnds ==
    /\ bpc = "loop"
    /\ bidx > Len(sse_clients)
    /\ bpc' = "remove"
    /\ UNCHANGED <<fetchVars, authVars, orchVars, mainVars, listenVars, clientVars,
                   codecVars, storeVars, sse_clients, conn, hpc, bidx,
                   clients_to_remove, removed, broadcasts>>

\* self.sse_clients.remove(client): ValueError, caught nowhere in
\* _send_sse_message, when the client is not in the list any more
RemoveOutcome(present) == IF present THEN "removed" ELSE "raised"

\* one pass of `for client in clients_to_remove`
BroadcastRemove ==
    /\ bpc = "remove"
    /\ clients_to_remove # << >>
    /\ LET c == Head(clients_to_remove)
           present == In(c, sse_clients)
       IN  /\ sse_clients' = Remove(sse_clients, c)
           /\ removed' = [removed EXCEPT ![c] = IF present THEN @ + 1 ELSE @]
           /\ bpc' = IF RemoveOutcome(present) = "raised" THEN "raised" ELSE bpc
    /\ clients_to_remove' = Tail(clients_to_remove)
    /\ UNCHANGED <<fetchVars, authVars, orchVars, mainVars, listenVars, clientVars,
                   codecVars, storeVars, conn, hpc, bidx, broadcasts>>

\* _send_sse_message returns
BroadcastReturns ==
    /\ bpc = "remove"
    /\ clients_to_remove = << >>
    /\ bpc' = "done"
    /\ UNCHANGED <<fetchVars, authVars, orchVars, mainVars, listenVars, clientVars,
                   codecVars, storeVars, sse_clients, conn, hpc, bidx,
                   clients_to_remove, removed, broadcasts>>

NextSse ==
    \/ \E c \in Clients : SseJoin(c)
    \/ \E c \in Clients : Disconnect(c)
    \/ \E c \in Clients : HandlerCheck(c)
    \/ \E c \in Clients : HandlerRemove(c)
    \/ BroadcastStart
    \/ BroadcastWrite
    \/ BroadcastLoopEnds
    \/ BroadcastRemove
    \/ BroadcastReturns

SpecSse == InitSse /\ [][NextSse]_vars

(* --------------------------- the API client --------------------------- *)
\* the operations the fetchers send
Operations == {"ContentList", "Receipts", "ContentDetails"}
\* response bodies: not JSON at all, or a JSON object with a data field and
\* possibly an errors field holding an array of nerrors entries
Bodies ==
    {[json |-> FALSE, haserrors |-> FALSE, nerrors |-> 0, data |-> 0]}
    \cup {[json |-> TRUE, haserrors |-> FALSE, nerrors |-> 0, data |-> d] :
            d \in 1..2}
    \cup {[json |-> TRUE, haserrors |-> TRUE, nerrors |-> n, data |-> d] :
            n \in 0..MaxErrors, d \in 1..2}

\* a graphql_query call on its own
InitClient ==
    /\ RunIdle
    /\ ListenIdle
    /\ gq_pc = "idle"
    /\ gq_op \in Operations
    /\ gq_status = 0
    /\ gq_body = << >>
    /\ gq_posts = 0
    /\ gq_result = << >>
    /\ CodecIdle
    /\ StoreIdle
    /\ SseIdle

\* response = self.session.post(...): the one request of the call; the
\* post raising (no connection) leaves graphql_query with that exception
Post(answered, status, body) ==
    /\ gq_pc = "idle"
    /\ gq_posts' = gq_posts + 1
    /\ gq_status' = IF answered THEN status ELSE 0
    /\ gq_body' = IF answered THEN body ELSE << >>
    /\ gq_pc' = IF answered THEN "posted" ELSE "raised"
    /\ UNCHANGED <<sseVars, fetchVars, authVars, orchVars, mainVars, listenVars, codecVars,
                   storeVars, gq_op,
                   gq_result>>

\* `if response.status_code != 200: raise`, then data = response.json(),
\* which raises on a body that is not JSON
Decode ==
    /\ gq_pc = "posted"
    /\ gq_pc' = IF gq_status # 200 \/ ~gq_body.json THEN "raised"
                                                    ELSE "decoded"
    /\ UNCHANGED <<sseVars, fetchVars, authVars, orchVars, mainVars, listenVars, codecVars,
                   storeVars, gq_op,
                   gq_status, gq_body, gq_posts, gq_result>>

\* `if 'errors' in data`: the key is present
HasErrors(body) == body.haserrors

\* `if 'errors' in data: raise`, else `return data`
CheckErrors ==
    /\ gq_pc = "decoded"
    /\ gq_pc' = IF HasErrors(gq_body) THEN "raised" ELSE "returned"
    /\ gq_result' = IF HasErrors(gq_body) THEN << >> ELSE <<gq_body>>
    /\ UNCHANGED <<sseVars, fetchVars, authVars, orchVars, mainVars, listenVars, codecVars,
                   storeVars, gq_op,
                   gq_status, gq_body, gq_posts>>

NextClient ==
    \/ \E answered \in BOOLEAN, status \in {200, 401, 500}, body \in Bodies :
           Post(answered, status, body)
    \/ Decode
    \/ CheckErrors

SpecClient == InitClient /\ [][NextClient]_vars

(* ------------------------ base64url and padding ----------------------- *)
\* characters of base64(SHA-256 digest of 32 bytes), its one '=' stripped
ChallengeLen == 43
\* n characters '='
Pad(n) == [i \in 1..n |-> "="]
\* the padded encoding base64.urlsafe_b64encode gives for these data
\* characters: '=' up to the next multiple of 4
Canonical(d) == d \o Pad((4 - (Len(d) % 4)) % 4)
\* str.rstrip('=')
RECURSIVE RStrip(_)
RStrip(t) ==
    IF t # << >> /\ t[Len(t)] = "=" THEN RStrip(SubSeq(t, 1, Len(t) - 1))
                                    ELSE t
\* padding = '=' * (4 - len(segment) % 4); segment + padding
Restore(t) == t \o Pad(4 - (Len(t) % 4))
\* bytes base64.b64decode yields: three for every four data characters
\* (excess '=' is accepted)
DecodedBytes(t) == (3 * Len(RStrip(t))) \div 4

\* the data characters of an encoding: any string over the alphabet whose
\* length an encoder can produce (never 1 mod 4)
Segments ==
    UNION {[1..n -> {"a", "b"}] : n \in {k \in 0..MaxChars : k % 4 # 1}}
    \cup {[i \in 1..ChallengeLen |-> "a"]}

\* a segment on its own
InitCodec ==
    /\ RunIdle
    /\ ListenIdle
    /\ ClientIdle
    /\ b64_pc = "raw"
    /\ b64_data \in Segments
    /\ b64_text = << >>
    /\ b64_bytes = -1
    /\ StoreIdle
    /\ SseIdle

\* base64.urlsafe_b64encode(...)
Encode ==
    /\ b64_pc = "raw"
    /\ b64_text' = Canonical(b64_data)
    /\ b64_pc' = "encoded"
    /\ UNCHANGED <<sseVars, fetchVars, authVars, orchVars, mainVars, listenVars,
                   clientVars, storeVars, b64_data, b64_bytes>>

\* .rstrip('=') (the challenge; a JWT segment arrives stripped)
Strip ==
    /\ b64_pc = "encoded"
    /\ b64_text' = RStrip(b64_text)
    /\ b64_pc' = "stripped"
    /\ UNCHANGED <<sseVars, fetchVars, authVars, orchVars, mainVars, listenVars,
                   clientVars, storeVars, b64_data, b64_bytes>>

\* _poll_for_auth: the padding is put back before the decoding
RestorePadding ==
    /\ b64_pc = "stripped"
    /\ b64_text' = Restore(b64_text)
    /\ b64_pc' = "restored"
    /\ UNCHANGED <<sseVars, fetchVars, authVars, orchVars, mainVars, listenVars,
                   clientVars, storeVars, b64_data, b64_bytes>>

\* base64.b64decode(segment + padding)
DecodeSegment ==
    /\ b64_pc = "restored"
    /\ b64_bytes' = DecodedBytes(b64_text)
    /\ b64_pc' = "decoded"
    /\ UNCHANGED <<sseVars, fetchVars, authVars, orchVars, mainVars, listenVars,
                   clientVars, storeVars, b64_data, b64_text>>

NextCodec ==
    \/ Encode
    \/ Strip
    \/ RestorePadding
    \/ DecodeSegment

SpecCodec == InitCodec /\ [][NextCodec]_vars

(* ------------------------- the document stores ------------------------ *)
\* the fetcher's own state, which a store call leaves alone
runVars == <<snapshot, run, pc, after, item_list, total, idx, stored, parts,
             pidx, parts_stored, pageLog, reported, detailLog, itemHist,
             existsTrue, filesAtStart, stats>>

\* what both stores have persisted
Persisted == <<files, docs, entities>>

\* a document store on its own, empty, with up to MaxFaults failures
InitStore ==
    /\ InitFetch
    /\ catalog = << >>
    /\ serverTotal = 0
    /\ budget = MaxFaults
    /\ shift = 0
    /\ AuthIdle
    /\ OrchIdle
    /\ MainIdle
    /\ ListenIdle
    /\ ClientIdle
    /\ CodecIdle
    /\ SseIdle
    /\ backend \in {"filesystem", "paperless"}
    /\ docs = << >>
    /\ entities = {}
    /\ ncalls = 0
    /\ last = << >>
    /\ pre = << >>
    /\ repeat = FALSE

\* the name paperless gets for the upload: date_correspondent_key[_partN]
\* with the extension of what is uploaded
Filename(key, ext) == <<kind, key, ext>>

\* PaperlessNgxStoreProvider.store. Outcomes: "io_fail" an exception, "conv_fail"
\* html_to_pdf returning None (the text is uploaded instead), "post_fail" a
\* status other than 200/201/202, "duplicate" the server accepting the
\* upload and discarding it as a copy of a document it holds.
\* The correspondent and the document type are looked up, and created if
\* missing, before dry_run is looked at.
PaperlessStore(key, ct, outcome) ==
    LET ext == IF ct # "application/pdf" /\ outcome = "conv_fail" THEN "txt"
                                                                 ELSE "pdf"
        made == entities \cup {<<"correspondent", key>>,
                               <<"document_type", kind>>}
    IN  IF ~Storable(ct)
        THEN [ret |-> TRUE, docs |-> docs, entities |-> entities]
        ELSE IF outcome = "io_fail"
        THEN [ret |-> FALSE, docs |-> docs, entities |-> entities]
        ELSE IF dry_run
        THEN [ret |-> TRUE, docs |-> docs, entities |-> made]
        ELSE IF outcome = "post_fail"
        THEN [ret |-> FALSE, docs |-> docs, entities |-> made]
        ELSE IF outcome = "duplicate"
        THEN [ret |-> TRUE, docs |-> docs, entities |-> made]
        ELSE [ret |-> TRUE, docs |-> Append(docs, Filename(key, ext)),
              entities |-> made]

\* what can happen to a store call of either backend
StoreOutcomes(ct, key) ==
    {"ok", "io_fail"}
    \cup (IF ct = "text/html" \/ (ct = "text/plain" /\ backend = "paperless")
          THEN {"conv_fail"} ELSE {})
    \cup (IF backend = "paperless" THEN {"post_fail"} ELSE {})
    \cup (IF backend = "paperless"
             /\ \E i \in 1..Len(docs) : docs[i][2] = key
          THEN {"duplicate"} ELSE {})

\* the call and its result, and whether it repeats the call before it
Record(op, key, ct, ret) ==
    /\ last' = <<[op |-> op, key |-> key, ct |-> ct, ret |-> ret]>>
    /\ repeat' = /\ last # << >>
                 /\ last[1].ret
                 /\ last[1].op = op
                 /\ last[1].key = key
                 /\ last[1].ct = ct
    /\ pre' = Persisted
    /\ ncalls' = ncalls + 1

\* document_store.store(content, metadata)
StoreCall(key, ct, outcome) ==
    /\ ncalls < MaxCalls
    /\ outcome \in StoreOutcomes(ct, key)
    /\ Fault(outcome \in {"ok", "duplicate"})
    /\ IF backend = "filesystem"
       THEN LET r == Store(ct, outcome)
            IN  /\ files' = FilesAfter(key, -1, r)
                /\ Record("store", key, ct, r.ret)
                /\ UNCHANGED <<docs, entities>>
       ELSE LET r == PaperlessStore(key, ct, outcome)
            IN  /\ docs' = r.docs
                /\ entities' = r.entities
                /\ Record("store", key, ct, r.ret)
                /\ UNCHANGED files
    /\ UNCHANGED <<sseVars, authVars, orchVars, mainVars, listenVars, clientVars,
                   codecVars, envVars, runVars, backend>>

\* document_store.report_metadata(data, metadata): the filesystem store
\* writes the JSON file, the paperless store returns True and does nothing
MetadataCall(key, ok) ==
    /\ ncalls < MaxCalls
    /\ backend = "paperless" => ok
    /\ Fault(ok)
    /\ files' = IF backend = "filesystem" /\ ~dry_run /\ ok
                THEN files \cup {MetadataPath(kind, key)}
                ELSE files
    /\ Record("report_metadata", key, "application/json", ok)
    /\ UNCHANGED <<sseVars, authVars, orchVars, mainVars, listenVars, clientVars,
                   codecVars, envVars, runVars, backend, docs, entities>>

ContentTypes == {"application/pdf", "text/plain", "text/html", "image/png"}

NextStore ==
    \/ \E key \in 1..MaxKeys, ct \in ContentTypes,
          outcome \in {"ok", "io_fail", "conv_fail", "post_fail", "duplicate"} :
           StoreCall(key, ct, outcome)
    \/ \E key \in 1..MaxKeys, ok \in BOOLEAN : MetadataCall(key, ok)

SpecStore == InitStore /\ [][NextStore]_vars

(* ============================== claims ================================ *)
\* the calls of the current item that are of one of these operations
CallsOf(ops) == {i \in 1..Len(calls) : calls[i][1] \in ops}
\* the store holds a JSON metadata file for this key
HasJson(F, key) ==
    \E f \in F : f[1] = kind /\ f[2] = key /\ f[4] = ".json"
\* the fetcher is at work on item_list[idx]
AtItem == pc \in {"detail", "meta", "parts", "pdf", "count", "item_done"}
\* the fetcher is past its list phase
Listed == pc \notin {"idle", "list", "failed"}

\* C1: an item for which exists() returns true gets exactly one exists call
\* and nothing else (no detail request, no report_metadata, no store, no
\* content request), its processing leaves the stored counter as it was, and
\* a run in which exists() returned true for every item returns stored = 0.
C1_ExistingItemSkipped ==
    /\ existsRes =>
          /\ pc \in {"items", "item_done", "done"}
          /\ calls = <<Call("exists", "application/json", -1)>>
          /\ stored = storedBefore
    /\ (existsRes /\ pc = "item_done") =>
          /\ \A j \in 1..Len(detailLog) : detailLog[j] # item_list[idx]
          /\ existsTrue >= 1
    /\ (pc = "done" /\ existsTrue = Len(item_list)) =>
          /\ stats[1].stored = IntVal(0)
          /\ detailLog = << >>
          /\ files = filesAtStart
C1_Witness ==
    /\ pc = "done"
    /\ Len(item_list) >= 2
    /\ existsTrue = Len(item_list)
    /\ existsRes

\* C2: in every run, report_metadata and store are invoked for an item only
\* if the store held no JSON metadata for it when the run began; and a second
\* run (dry_run off) over a listing whose every item had its metadata
\* persisted by the first run stores nothing and returns stored = 0.
C2_SecondRunStoresNothing ==
    /\ (AtItem /\ CallsOf({"report_metadata", "store"}) # {}) =>
          ~HasJson(filesAtStart, item_list[idx])
    /\ (run >= 2 /\ pc = "done" /\ ~dry_run
          /\ \A i \in 1..Len(item_list) : HasJson(filesAtStart, item_list[i])) =>
          /\ stats[1].stored = IntVal(0)
          /\ files = filesAtStart
          /\ detailLog = << >>
C2_Witness ==
    /\ run = 2
    /\ pc = "done"
    /\ ~dry_run
    /\ Len(item_list) >= 2
    /\ \A i \in 1..Len(item_list) : HasJson(filesAtStart, item_list[i])

\* the pages of the list phase, one after the other
RECURSIVE Concat(_, _)
Concat(log, n) == IF n = 0 THEN << >> ELSE Concat(log, n - 1) \o log[n].list
\* the server said existsMore on every page but the last
SplitAcross(log) ==
    /\ \A i \in 1..Len(log) : log[i].ok
    /\ \A i \in 1..(Len(log) - 1) : log[i].existsMore
    /\ ~log[Len(log)].existsMore
\* the number of pages of pageSize items that hold the catalog
PagesOfCatalog ==
    IF Len(catalog) = 0 THEN 1
    ELSE (Len(catalog) + pageSize - 1) \div pageSize

\* C3: when the server splits the letters listing across N pages (existsMore
\* on all but the last), the list phase makes exactly N requests, the first
\* with a null cursor and each later one with the key of the last item of the
\* page before, and what it accumulated is the pages in order, which is the
\* whole listing.
C3_PaginationComplete ==
    (kind = "letters" /\ pc = "report" /\ SplitAcross(pageLog)) =>
        /\ Len(pageLog) = PagesOfCatalog
        /\ pageLog[1].after = NoKey
        /\ \A i \in 2..Len(pageLog) :
              pageLog[i].after =
                  pageLog[i - 1].list[Len(pageLog[i - 1].list)]
        /\ item_list = Concat(pageLog, Len(pageLog))
        /\ item_list = catalog
C3_Witness ==
    /\ kind = "letters"
    /\ pc = "report"
    /\ SplitAcross(pageLog)
    /\ Len(pageLog) = 2
    /\ pageSize = 2
    /\ Len(catalog) = 3

\* C4 as claimed: the total of the returned statistics is the total the
\* server reported, for both kinds.
C4_TotalIsServerTotal ==
    pc = "done" => stats[1].total = serverTotal
\* C4 as amended: for every max_count the total of the returned statistics is
\* the server-reported total for receipts and the number of letters
\* accumulated by the list phase for letters.
C4_TotalIndependentOfMax ==
    pc = "done" =>
        stats[1].total =
            IF kind = "receipts" THEN serverTotal ELSE Len(reported[1])
C4_Witness ==
    /\ pc = "done"
    /\ max_arg = 1
    /\ Len(catalog) = 3
    /\ serverTotal # Len(catalog)
    /\ stats[1].total = 3

C6_ListBeforeTruncation ==
    /\ Listed =>
          Len(pageLog) =
              IF kind = "receipts" THEN 1
              ELSE IF srvMore = "always" /\ catalog # << >>
                   THEN PagesOfCatalog + 1
                   ELSE PagesOfCatalog
    /\ reported # << >> => reported[1] = catalog
    /\ detailLog # << >> => reported # << >> /\ pc \notin {"list", "report"}
    /\ max_arg > 0 =>
          \A j \in 1..Len(detailLog) :
              \E i \in 1..Min(max_arg, Len(catalog)) : catalog[i] = detailLog[j]
    /\ \A i, j \in 1..Len(detailLog) : i < j => detailLog[i] < detailLog[j]
C6_Witness ==
    /\ kind = "letters"
    /\ pc = "done"
    /\ pageSize = 1
    /\ Len(pageLog) = 3
    /\ max_arg = 1
    /\ detailLog = <<1>>

\* C7: a letter with the parts [text/plain, application/pdf, text/html,
\* unknown], all of them accepted by the store, gets exactly three store
\* calls (the text, the pdf after one get_content_file, the html), the unknown
\* part is passed over, and the letter adds exactly 1 to the stored counter;
\* any letter with at least one stored part adds exactly 1.
C7_FourPartsCountOnce ==
    /\ (kind = "letters" /\ pc = "item_done" /\ parts = Shapes[1]
          /\ pidx > Len(parts)
          /\ storeTrue = Cardinality(CallsOf({"store"}))) =>
          /\ calls = <<Call("exists", "application/json", -1),
                       Call("detail", "", -1),
                       Call("report_metadata", "application/json", -1),
                       Call("store", "text/plain", 0),
                       Call("get_content_file", "application/pdf", 1),
                       Call("store", "application/pdf", 1),
                       Call("store", "text/html", 2)>>
          /\ stored = IntVal(storedBefore.val + 1)
    /\ (kind = "letters" /\ pc = "item_done" /\ pidx > Len(parts)
          /\ parts_stored >= 1) =>
          stored = IntVal(storedBefore.val + 1)

\* C8: processing an item raises the stored counter, by exactly one, if and
\* only if store persisted at least one of its content parts; otherwise the
\* counter keeps its value.
C8_CountedIffPartStored ==
    pc = "item_done" =>
        stored = IF storeTrue >= 1 THEN IntVal(storedBefore.val + 1)
                                   ELSE storedBefore

\* the positions of an event in the history of the attempt
At(e) == {i \in 1..Len(events) : events[i] = e}
Polls == Cardinality(At("GET poll"))

\* C9: report_authentication_success is invoked at most once, only right
\* after the poll answered complete and before the token POST; a successful
\* authentication has invoked it exactly once, and one whose polling ended on
\* another status never.
C9_SuccessReportedOnce ==
    /\ Cardinality(At("report_authentication_success")) <= 1
    /\ \A i \in At("report_authentication_success") :
          /\ poll_status = "complete"
          /\ i > 1 /\ events[i - 1] = "GET poll"
          /\ \A j \in At("POST token") : j = i + 1
          /\ \A j \in At("GET poll") : j < i
    /\ At("POST token") # {} => At("report_authentication_success") # {}
    /\ apc = "done" => Cardinality(At("report_authentication_success")) = 1
    /\ poll_status # "complete" => At("report_authentication_success") = {}
C9_Witness ==
    /\ apc = "done"
    /\ pending = 3
    /\ Cardinality(At("report_authentication_success")) = 1

\* C10: the Authenticator keeps polling while the answer is pending and
\* sleeps the interval before every poll; when k pending answers are followed
\* by complete it has made k + 1 poll requests, and no poll request follows
\* an answer that is not pending.
C10_PollsWhilePending ==
    /\ poll_status = "pending" => apc = "poll" /\ Polls = pending
    /\ poll_status \notin {"", "pending"} => apc # "poll" /\ Polls = pending + 1
    /\ apc \in {"notify", "token", "done"} =>
          poll_status = "complete" /\ Polls = pending + 1
    /\ \A i \in At("GET poll") : i > 1 /\ events[i - 1] = "sleep"
    /\ Cardinality(At("sleep")) = Polls
    /\ clock = PollInterval * Polls
C10_Witness ==
    /\ apc = "notify"
    /\ pending = 3
    /\ Polls = 4
    /\ clock = 20

\* display_qr_code was invoked: the attempt went on to the poll loop
EnteredPolling ==
    At("display_qr_code") # {} \/ At("display_qr_code failed") # {}

\* C11: the attempt leaves the poll loop only on a poll answer that is not
\* pending; the token POST is made only after a poll answered complete; a poll
\* answer that is neither complete nor pending aborts the attempt with no
\* token POST and no credential.
C11_LeavesPollingByPoll ==
    /\ (EnteredPolling /\ apc # "poll") =>
          Polls >= 1 /\ poll_status \notin {"", "pending"}
    /\ \A i \in At("POST token") :
          /\ poll_status = "complete"
          /\ \E j \in At("GET poll") : j < i
    /\ poll_status \notin {"", "pending", "complete"} =>
          /\ apc = "aborted"
          /\ At("POST token") = {}
          /\ token_resp = << >>
          /\ token_info = << >>
    /\ poll_status = "failed" => exit = "sys.exit"
C11_Witness ==
    /\ poll_status = "failed"
    /\ pending = 2
    /\ apc = "aborted"
    /\ Polls = 3

\* C12: an authorize response with a status other than 201 and 202 aborts the
\* attempt at once: one authorize request has been made, no code is
\* displayed, no poll and no token request is made, no credential returned.
C12_RejectedAuthorizeAborts ==
    auth_status \notin {0, 201, 202} =>
        /\ apc = "aborted"
        /\ exit = "sys.exit"
        /\ events = <<"GET app", "POST authorize">>
        /\ token_info = << >>
C12_Witness ==
    /\ auth_status = 400
    /\ auth_data.qr_code /\ auth_data.next_poll_url /\ auth_data.code
    /\ apc = "aborted"

\* C13: an accepted authorize response that lacks the QR code, the polling
\* URL or the authorization code aborts the attempt before a code is
\* displayed and before any poll request.
C13_IncompleteAuthorizeAborts ==
    (auth_status \in {201, 202}
        /\ ~(auth_data.qr_code /\ auth_data.next_poll_url /\ auth_data.code)) =>
        /\ apc = "aborted"
        /\ ~EnteredPolling
        /\ Polls = 0

\* C14: a returned credential holds an access token and an actor key, both
\* present; an aborted attempt returns no credential, and a token response
\* other than 200 aborts the attempt with no request after it.
C14_NoPartialCredential ==
    /\ apc = "done" =>
          /\ token_info # << >>
          /\ token_info[1].access_token
          /\ token_info[1].actor_key
    /\ apc = "aborted" => token_info = << >>
    /\ (token_resp # << >> /\ token_resp[1].status # 200) =>
          /\ apc = "aborted"
          /\ exit = "sys.exit"
          /\ events[Len(events)] = "POST token"

\* C16: a display_qr_code that fails to deliver the code does not abort the
\* attempt: the Authenticator is in its poll loop afterwards and leaves it
\* only after a poll request.
C16_DisplayFailureKeepsPolling ==
    At("display_qr_code failed") # {} =>
        /\ apc = "poll" \/ Polls >= 1
        /\ events[Len(events)] # "display_qr_code failed" => Polls >= 1
C16_Witness ==
    /\ At("display_qr_code failed") # {}
    /\ apc = "done"
    /\ pending = 1

\* the current item ended on a content request that raised (a request that
\* returns is followed by its store call)
ContentFailed ==
    /\ pc = "item_done"
    /\ calls # << >>
    /\ calls[Len(calls)][1] \in {"get_content_file", "get_pdf"}
\* the content files the store holds for this key
PartFiles(key) ==
    {f \in files : f[1] = kind /\ f[2] = key /\ f[4] # ".json"}
\* every listed item with a key was looked up, and fetched unless the store
\* had it when the run began
AllProcessed ==
    \A i \in 1..Len(item_list) :
        item_list[i] # NoKey =>
            \/ HasJson(filesAtStart, item_list[i])
            \/ \E j \in 1..Len(detailLog) : detailLog[j] = item_list[i]
\* the parts of the current letter that _process_letter_parts hands to store
StorableParts ==
    {i \in 1..Len(parts) :
        /\ Storable(parts[i].content_type)
        /\ parts[i].content_type = "application/pdf" => parts[i].haskey}

\* C17: a content request that fails ends the item only: the parts stored
\* before it are still in the store, no later part of the item is processed,
\* the fetch is not aborted (only a failed list request does that), and a
\* fetch that returns has processed every listed item.
C17_ContentFailureAbortsItemOnly ==
    /\ ContentFailed =>
          /\ Cardinality(PartFiles(item_list[idx])) >= written
          /\ kind = "letters" =>
                 /\ pidx <= Len(parts)
                 /\ calls[Len(calls)] =
                        Call("get_content_file", "application/pdf",
                             PartIndex(parts, pidx))
    /\ pc = "failed" => ~pageLog[Len(pageLog)].ok
    /\ pc = "done" => stats # << >> /\ AllProcessed
C17_Witness ==
    /\ ContentFailed
    /\ kind = "letters"
    /\ written = 1
    /\ idx = 1
    /\ Len(item_list) = 2

\* C18: a report_listing that fails to write the listing does not end the
\* fetch: the fetcher goes on to the items, and when it returns it has
\* processed every listed item and returns its statistics.
C18_ListingFailureNotFatal ==
    (reported # << >> /\ ~reported[2]) =>
        /\ pc \notin {"list", "report", "failed"}
        /\ pc = "done" => stats # << >> /\ AllProcessed
C18_Witness ==
    /\ reported # << >>
    /\ ~reported[2]
    /\ pc = "done"
    /\ Len(detailLog) = 2
    /\ storeTrue >= 1

\* report_metadata was called for the current item and wrote no file
MetadataFailed ==
    /\ AtItem
    /\ ~dry_run
    /\ CallsOf({"report_metadata"}) # {}
    /\ MetadataPath(kind, item_list[idx]) \notin files

\* C19: an item whose metadata could not be written still has its content
\* fetched and handed to store: the receipt's pdf is requested, every
\* storable part of the letter gets its store call.
C19_MetadataFailureNotFatal ==
    /\ (MetadataFailed /\ pc = "item_done" /\ kind = "receipts") =>
          CallsOf({"get_pdf"}) # {}
    /\ (MetadataFailed /\ pc = "item_done" /\ kind = "letters"
          /\ parts # << >>) =>
          /\ pidx >= 1
          /\ ~ContentFailed =>
                Cardinality(CallsOf({"store"})) = Cardinality(StorableParts)
C19_Witness ==
    /\ MetadataFailed
    /\ pc = "item_done"
    /\ kind = "letters"
    /\ Cardinality(CallsOf({"store"})) = 3
    /\ storeTrue = 3

\* the token response was a 200 whose id_token cannot be used
BadIdToken ==
    /\ token_resp # << >>
    /\ token_resp[1].status = 200
    /\ token_resp[1].id_token # "ok"

\* C15: a token response whose id_token is missing, has fewer than two
\* segments, has a payload that is not a JSON object or lacks the actor
\* identifier aborts the run: no credential is returned, fetch_documents
\* starts no fetcher, makes no list request and reports no completion.
C15_BadIdTokenAborts ==
    BadIdToken =>
        /\ apc = "aborted"
        /\ token_info = << >>
        /\ opc \in {"auth", "exited", "returned1"}
        /\ run = 0
        /\ pc = "idle"
        /\ pageLog = << >>
        /\ olog = <<"authenticate">>
C15_Witness ==
    /\ BadIdToken
    /\ token_resp[1].id_token = "bad_payload"
    /\ opc = "returned1"
    /\ fetch_receipts /\ fetch_letters
    /\ catalog # << >>

\* the positions of a call in the history of fetch_documents
Pos(e) == {i \in 1..Len(olog) : olog[i] = e}
\* the fetcher of kind k has been started in this run
Started(k) ==
    Pos(IF k = "receipts" THEN "fetch_receipts" ELSE "fetch_letters") # {}
\* the fetcher of kind k has returned in this run
Returned(k) ==
    Pos(IF k = "receipts" THEN "receipts_returned" ELSE "letters_returned") # {}

\* C20: in one run of fetch_documents authenticate is called once and first
\* and no fetcher starts before it returned; each fetcher starts at most once
\* and only if enabled, letters only after receipts returned; a disabled
\* kind makes no list request and contributes zeros; report_completion is
\* called at most once, as the last call, after every enabled fetcher
\* returned, and exactly once in a run that returns 0, with the merged
\* statistics.
C20_RunOrder ==
    /\ olog[1] = "authenticate"
    /\ \A e \in {"authenticate", "fetch_receipts", "fetch_letters",
                  "receipts_returned", "letters_returned", "report_completion"} :
          Cardinality(Pos(e)) <= 1
    /\ Cardinality(At("POST authorize")) <= 1
    /\ Len(olog) >= 2 => apc = "done" /\ Cardinality(At("POST authorize")) = 1
    /\ \A k \in {"receipts", "letters"} : Started(k) => Enabled(k)
    /\ (pc # "idle" \/ pageLog # << >>) => Started(kind) /\ Enabled(kind)
    /\ Started("letters") =>
          /\ fetch_receipts => Returned("receipts")
          /\ \A i \in Pos("fetch_letters") :
                \A j \in Pos("fetch_receipts") \cup Pos("receipts_returned") :
                    j < i
    /\ \A i \in Pos("report_completion") :
          /\ i = Len(olog)
          /\ \A k \in {"receipts", "letters"} : Enabled(k) => Returned(k)
    /\ opc = "returned0" =>
          /\ Cardinality(Pos("report_completion")) = 1
          /\ ostats[1].letters =
                 IF fetch_letters THEN stats[1] ELSE ZeroStats
          /\ ~fetch_receipts => ostats[1].receipts = ZeroStats
          /\ (fetch_receipts /\ ~fetch_letters) => ostats[1].receipts = stats[1]
          /\ fetch_receipts =>
                 /\ ostats[1].receipts.total = serverTotal
                 /\ ostats[1].receipts.fetched = Len(catalog)
C20_Witness ==
    /\ opc = "returned0"
    /\ fetch_receipts /\ fetch_letters
    /\ catalog = <<1>>
    /\ ostats[1].receipts.stored = IntVal(1)
    /\ ostats[1].letters.stored = IntVal(1)
    /\ olog = <<"authenticate", "fetch_receipts", "receipts_returned",
                "fetch_letters", "letters_returned", "report_completion">>

\* the keys of the listing that are not null
Keyed(l) == {i \in 1..Len(l) : l[i] # NoKey}

\* C29: a --max value of 0 means no limit: the fetcher works through the
\* whole listing and returns fetched = its length; a positive value n limits
\* the work to the first n items of the listing, and no detail request is
\* made for an item beyond them.
C29_ZeroMeansUnlimited ==
    /\ (pc = "done" /\ max_arg = 0) =>
          /\ item_list = reported[1]
          /\ stats[1].fetched = Len(reported[1])
          /\ AllProcessed
    /\ (pc = "done" /\ max_arg > 0) =>
          /\ item_list = SubSeq(reported[1], 1, Min(max_arg, Len(reported[1])))
          /\ stats[1].fetched = Len(item_list)
          /\ AllProcessed
    /\ (Listed /\ pc # "report" /\ max_arg >= 0) =>
          \A j \in 1..Len(detailLog) :
              \E i \in 1..Len(item_list) :
                  /\ item_list[i] = detailLog[j]
                  /\ max_arg > 0 => i <= max_arg
C29_Witness ==
    /\ pc = "done"
    /\ max_arg = 0
    /\ Len(reported[1]) = MaxItems
    /\ Len(detailLog) = MaxItems
    /\ stats[1].fetched = MaxItems

\* C30: with dry_run set, report_metadata and store return success unless
\* they raise, nothing is written to the store, so exists answers after the
\* run what it answered before, and a following run finds no item in the
\* store and requests the details of every item with a key again.
C30_DryRunPersistsNothing ==
    dry_run =>
        /\ files = filesAtStart
        /\ existsTrue = 0
        /\ ~existsRes
        /\ \A i \in Keyed(item_list) : ~Exists(kind, item_list[i])
        /\ (pc = "item_done" /\ faults = 0) =>
              storeTrue = Cardinality(CallsOf({"store"}))
        /\ (pc = "done" /\ faults = 0) =>
              Len(detailLog) = Cardinality(Keyed(item_list))
C30_Witness ==
    /\ dry_run
    /\ run = 2
    /\ pc = "done"
    /\ faults = 0
    /\ Len(detailLog) >= 2
    /\ stats[1].stored = IntVal(2)

\* fetch_documents called report_completion and the call raised
CompletionFailed ==
    /\ opc = "returned1"
    /\ olog # << >>
    /\ olog[Len(olog)] = "report_completion"

\* C22: without a listening provider the process exits with status 0 exactly
\* when fetch_documents returned 0, which it does only after
\* report_completion was called and returned; an authentication that aborts,
\* a fetcher that raises (a failed list request) and a report_completion
\* that raises all give a non-zero status.
C22_ExitStatus ==
    exit_status # NoStatus =>
        /\ exit_status = 0 <=> opc = "returned0"
        /\ exit_status = 0 =>
              /\ olog[Len(olog)] = "report_completion"
              /\ apc = "done"
              /\ pc # "failed"
        /\ (apc = "aborted" \/ pc = "failed" \/ CompletionFailed) =>
              exit_status > 0
C22_Witness ==
    /\ exit_status = 1
    /\ apc = "done"
    /\ pc = "failed"
    /\ opc = "returned1"

\* the invocations that have authenticated
Authenticated == {r \in 1..Len(runs) : runs[r].token # 0}
\* the invocations that are over without fetch_documents having returned 0
\* after a delivered completion report
Over == {r \in 1..Len(runs) : runs[r].phase = "over"}

\* C21: under a listening provider every invocation authenticates afresh:
\* one authorize request of its own with a code verifier no other
\* invocation has, a bearer token issued during the invocation and held by
\* no other, and no request with any token but that one.
C21_FreshAuthenticationPerTrigger ==
    \A r \in 1..Len(runs) :
        /\ runs[r].phase \notin {"start", "auth"} /\ runs[r].report # "error" =>
              /\ runs[r].authorizes = 1
              /\ runs[r].verifier > 0
              /\ \A q \in 1..Len(runs) :
                    q # r => runs[q].verifier # runs[r].verifier
        /\ r \in Authenticated =>
              /\ runs[r].token > runs[r].base
              /\ \A q \in Authenticated : q # r => runs[q].token # runs[r].token
        /\ runs[r].used \subseteq {runs[r].token} \ {0}
C21_Witness ==
    /\ Len(runs) = 2
    /\ \A r \in 1..2 : runs[r].phase = "over" /\ runs[r].report = "completion"
    /\ runs[1].used = {1}
    /\ runs[2].used = {2}

\* C23: under a listening provider an invocation that fails (authorize
\* rejected, poll status failed, token exchange refused: each a sys.exit of
\* authenticate; or an Exception, caught) leaves the provider running.
C23_FailureLeavesProviderRunning ==
    (\E r \in Over : runs[r].report # "completion") => alive

\* C24: under a listening provider every invocation that is over was
\* reported through the provider, as complete or as failed.
C24_EveryRunReported ==
    \A r \in Over : runs[r].report \in {"completion", "error"}

\* C27: under a listening provider at most one invocation is in flight.
C27_OneRunInFlight ==
    Cardinality({r \in 1..Len(runs) : runs[r].phase \in InFlight}) <= 1

\* C25: graphql_query, answered with a JSON body, raises exactly when the
\* status is not 200 or the body's errors array has entries; an answer of
\* 200 without errors, or with an empty errors array, is returned decoded;
\* the call issues one request.
C25_RaisesIffFailure ==
    (gq_pc \in {"returned", "raised"} /\ gq_status # 0 /\ gq_body.json) =>
        /\ gq_pc = "raised" <=> (gq_status # 200 \/ gq_body.nerrors > 0)
        /\ gq_pc = "returned" => gq_result = <<gq_body>>
        /\ gq_posts = 1

\* C26: restoring the padding undoes the stripping: for every stripped
\* base64url string, the 43-character challenge among them, the restored
\* string has a length that is a multiple of 4 and is the padded encoding
\* the string was stripped from.
C26_RestoreInvertsStrip ==
    b64_pc \in {"restored", "decoded"} =>
        /\ Len(b64_text) % 4 = 0
        /\ b64_text = Canonical(b64_data)

\* C28: a store or report_metadata call that repeats, with the same
\* arguments, a call that returned True, and returns True itself, leaves
\* what is persisted as it was, for the filesystem and the paperless store.
C28_RepeatedCallChangesNothing ==
    (repeat /\ last[1].ret) => Persisted = pre

\* where a call stands in the processing of an item
Rank(c) ==
    CASE c[1] = "exists" -> 0
      [] c[1] = "detail" -> 1
      [] c[1] = "report_metadata" -> 2
      [] OTHER -> 3

\* C31: items are processed one at a time in listing order: the calls of an
\* item come as exists, then the detail request, then report_metadata, then
\* the parts by rising part index, each of the first three at most once; the
\* detail requests of a run follow the order of the listing, and none is
\* made for an item after the one at work.
C31_ItemOrder ==
    /\ (AtItem /\ calls # << >>) =>
          /\ calls[1][1] = "exists"
          /\ \A i, j \in 1..Len(calls) :
                i < j =>
                   /\ Rank(calls[i]) <= Rank(calls[j])
                   /\ Rank(calls[i]) < 3 => Rank(calls[i]) < Rank(calls[j])
                   /\ calls[i][3] <= calls[j][3]
    /\ AtItem =>
          /\ (\E j \in 1..Len(detailLog) : detailLog[j] = item_list[idx])
                <=> CallsOf({"detail"}) # {}
          /\ \A j \in 1..Len(detailLog) :
                \E i \in 1..idx : item_list[i] = detailLog[j]
    /\ \A j, k \in 1..Len(detailLog) : j < k => detailLog[j] < detailLog[k]
C31_Witness ==
    /\ kind = "letters"
    /\ pc = "item_done"
    /\ idx = 2
    /\ Len(detailLog) = 2
    /\ Cardinality(CallsOf({"store"})) >= 2

\* C32: the stored counter is an integer, never negative, never lower than
\* when the item at work began and at most one higher, and the statistics
\* returned satisfy 0 <= stored <= fetched <= length of the listing.
C32_CounterInvariants ==
    /\ ~stored.isNone
    /\ stored.val >= 0
    /\ AtItem =>
          /\ stored.val >= storedBefore.val
          /\ stored.val <= storedBefore.val + 1
    /\ pc = "done" =>
          /\ ~stats[1].stored.isNone
          /\ 0 <= stats[1].stored.val
          /\ stats[1].stored.val <= stats[1].fetched
          /\ stats[1].fetched <= Len(reported[1])

\* the content of the item at work, as its detail declared it, is in the store
PartsPersisted ==
    IF kind = "receipts"
    THEN Path(kind, item_list[idx], -1, ".pdf") \in files
    ELSE \A p \in StorableParts :
            \E f \in PartFiles(item_list[idx]) : f[3] = PartIndex(parts, p)

\* C34: with the filesystem store, whenever exists answers true for an item
\* the run has worked on, every storable part of the item is in the store
\* (so an item whose content request failed is fetched again by the next
\* run).
C34_ExistsImpliesPartsStored ==
    (pc = "item_done" /\ ~dry_run /\ item_list[idx] # NoKey /\ ~existsRes
        /\ Exists(kind, item_list[idx])) => PartsPersisted

\* C35: an item without a key is passed over with no store call and no
\* request, the stored counter keeps its value, and the run returns an
\* integer count.
C35_KeylessItemSkipped ==
    /\ (pc = "item_done" /\ item_list[idx] = NoKey) =>
          /\ calls = << >>
          /\ stored = storedBefore
    /\ pc = "done" => ~stats[1].stored.isNone

\* C36: the letters list phase asks for a further page only after a page
\* that was not empty and had existsMore true, and is over as soon as a page
\* is empty or has existsMore false; over a catalog whose letters all have
\* keys it makes at most one request more than there are letters.
C36_ListPhaseStops ==
    kind = "letters" =>
        /\ \A j \in 1..(Len(pageLog) - 1) :
              /\ pageLog[j].ok
              /\ pageLog[j].list # << >>
              /\ pageLog[j].existsMore
        /\ (pc = "list" /\ pageLog # << >>) =>
              /\ pageLog[Len(pageLog)].ok
              /\ pageLog[Len(pageLog)].list # << >>
              /\ pageLog[Len(pageLog)].existsMore
        /\ Listed =>
              /\ pageLog # << >>
              /\ pageLog[Len(pageLog)].ok
              /\ \/ ~pageLog[Len(pageLog)].existsMore
                 \/ pageLog[Len(pageLog)].list = << >>
        /\ Keyed(catalog) = 1..Len(catalog) =>
              Len(pageLog) <= Len(catalog) + 1
C36_Witness ==
    /\ kind = "letters"
    /\ srvMore = "always"
    /\ pc = "done"
    /\ Len(pageLog) = MaxItems + 1
    /\ pageLog[Len(pageLog)].list = << >>
    /\ pageLog[Len(pageLog)].existsMore

\* the receipts fetcher raised: its one list request failed
ReceiptsListFailed ==
    /\ kind = "receipts"
    /\ pc = "failed"

\* C37: when the receipts fetcher fails, it failed on its list request, the
\* letters fetcher is never started, report_completion is never called and
\* fetch_documents returns 1 (the process exits with 1); a run in which
\* receipts were listed goes on to the letters fetcher, if enabled, whatever
\* failed for single receipts.
C37_ReceiptsListFailureEndsRun ==
    /\ ReceiptsListFailed =>
          /\ ~pageLog[Len(pageLog)].ok
          /\ detailLog = << >>
          /\ ~Started("letters")
          /\ Pos("report_completion") = {}
          /\ opc \in {"in_receipts", "returned1"}
          /\ exit_status \in {NoStatus, 1}
    /\ (apc = "done" /\ fetch_letters /\ ~ReceiptsListFailed
          /\ opc \in {"in_letters", "report", "returned0", "returned1"}) =>
          Started("letters")
C37_Witness ==
    /\ ReceiptsListFailed
    /\ fetch_letters
    /\ opc = "returned1"
    /\ exit_status = 1

\* the invocations between img.save and the end of _poll_for_auth
ShowingQr == {r \in 1..Len(runs) : runs[r].phase \in {"show", "poll"}}

\* C38: from the moment an invocation has written kivra_qr.png until its
\* polling is over, the file holds that invocation's code, and the code the
\* provider showed for the invocation is its own.
C38_QrPrivateToAttempt ==
    \A r \in ShowingQr :
        /\ qr_file = r
        /\ runs[r].shown \in {0, r}

\* C33: the ntfy listening loop never ends: after a failed connection it
\* sleeps and connects again, and once a callback is over, however it ended,
\* the loop is reading the stream or on its way to a new connection, so a
\* later trigger is dispatched.
C33_ListenLoopNeverEnds ==
    provider = "ntfy" =>
        /\ lpc \in {"connect", "sleep", "stream", "callback"}
        /\ exit_status = NoStatus

\* C39: a broadcast never raises because clients disconnect, whatever the
\* handler threads do meanwhile, and a disconnected client is removed from
\* sse_clients once, by one thread, without an error in either.
C39_BroadcastNeverRaises ==
    /\ bpc # "raised"
    /\ \A c \in Clients : hpc[c] # "raised" /\ removed[c] <= 1

====
